---- MODULE Spec2Model ----
(***************************************************************************)
(* Coordination core of the DuckDB notebook extension.                     *)
(*                                                                         *)
(*   sandbox (webview, App.tsx)          host (extension.ts)               *)
(*   runCell / executeQuery        --->  onDidReceiveMessage               *)
(*   requestFileAccess             --->    case "requestFileAccess"        *)
(*   chunked transfer in runCell   --->    case "saveFileStart/Chunk/End"  *)
(*   exportCell                    --->    case "exportData"               *)
(*   saveSettings                  --->    case "updateConfiguration"      *)
(*   handleMessage                 <---  webview.postMessage               *)
(*                                                                         *)
(* A byte buffer is modelled by the slices it is made of: the slice        *)
(* [src, lo, hi] stands for bytes lo..hi-1 of the buffer named src.  Two   *)
(* byte strings are equal when their normalised slice lists are equal.     *)
(* This keeps CHUNK_SIZE at the program's value.                           *)
(***************************************************************************)
EXTENDS Integers, Sequences, FiniteSets, TLC

(* ------------------------------ bounds -------------------------------- *)

\* number of chunked exports (runCell reaching the transfer) in one behaviour
MaxExports == 2
\* largest exported buffer, in whole chunks
MaxChunks == 3
\* number of direct exports (exportCell) in one behaviour
MaxDirect == 1
\* number of file-system operations that fail in one behaviour
MaxFailures == 1
\* number of runCell calls with a non-blank query in one behaviour
MaxRuns == 2
\* number of saveSettings calls in one behaviour
MaxSaves == 1
\* calls of initializeDuckDB: the first load and the replays after stop
MaxBoots == 2
\* number of cells of the notebook
MaxCells == 5
\* number of cells of a bootstrap that the user removes
MaxRemovals == 1
\* the last ms at which the clock still advances between two events of the notebook
MaxClock == 11
\* number of cells whose query the user has changed
MaxEdits == 1

(* ----------------------------- constants ------------------------------ *)

\* const CHUNK_SIZE = 1024 * 1024
CHUNK_SIZE == 1048576

NoWorkspace == "none"
NoName == ""

\* copy-to-path targets named in queries: one relative, one absolute
Names == {"out.parquet", "/tmp/out.parquet"}
AbsoluteNames == {"/tmp/out.parquet"}

\* sizes of the buffers db.copyFileToBuffer returns
Sizes ==
  {0, 1, CHUNK_SIZE - 1, CHUNK_SIZE, CHUNK_SIZE + 1, 3 * CHUNK_SIZE, MaxChunks * CHUNK_SIZE}

\* the sizes used where the host's steps interleave with the sender's: 0, 1 and 2 chunks
HostSizes == {0, 1, CHUNK_SIZE + 1}

ExportIds == 1..MaxExports
DirectIds == 1..MaxDirect
RunIds == 1..MaxRuns
BootIds == 1..MaxBoots

\* absolute paths of external files a query may name
Paths == {"/abs/a.csv", "/abs/b.csv"}

VARIABLES
  workspaceScheme,   \* scheme of workspaceFolders[0].uri, or NoWorkspace
  exports,           \* sandbox: the chunked transfers of runCell, by export
  toHost,            \* messages posted by the webview, not yet received by the host (FIFO)
  sentLog,           \* history: every saveFile* message posted by the webview, in order
  writeQueue,        \* host: links of _fileWriteQueue that have not started yet
  writing,           \* host: the link of _fileWriteQueue that is executing, or NoOp
  directs,           \* host: the exportData handlers, by direct export
  files,             \* the file system: target uri -> file (NoFile when missing)
  hostLog,           \* history: the file operations and notifications the host executed
  failures,          \* history: number of file-system operations that failed
  cells,             \* sandbox: the cells state (a list of CellData)
  dbReady,           \* sandbox: the dbReady state
  runs,              \* sandbox: the runCell calls in progress, by run
  pendingRequests,   \* sandbox: pendingRequests.current, filePath -> run whose handle it holds
  settings,          \* sandbox: settings.allowExternalFileAccess
  saves,             \* history: number of saveSettings calls
  toWebview,         \* messages posted by the host, not yet handled by the webview (FIFO)
  handlers,          \* host: the "requestFileAccess" handler invocations, in order of receipt
  allowExternalFileAccess, \* host: the persisted setting duckdb.allowExternalFileAccess
  dbError,           \* sandbox: the dbError state (NoError when null)
  localSettings,     \* sandbox: settings.showDescribe and settings.previewLimit
  initialMessage,    \* sandbox: initialMessageRef.current (NoMessage when null)
  duckdb,            \* sandbox: window.duckdbWorker / duckdbInstance / duckdbConnection
  workers,           \* the engine workers: "none", "live" or "terminated", by bootstrap
  boots,             \* sandbox: the initializeDuckDB calls, by bootstrap
  stopping,          \* sandbox: number of stopCell calls awaiting db.terminate()
  timers,            \* sandbox: due times of the pending setTimeout(..., 100) of stopCell
  clock,             \* the last value of Date.now() that was read
  focusId,           \* sandbox: the focusId state (NoCell when null)
  advances           \* sandbox: the runCellAndAdvance calls awaiting runCell, by run

transferVars ==
  <<workspaceScheme, exports, sentLog, writeQueue, writing, directs, files, hostLog>>

brokerVars ==
  <<cells, dbReady, runs, pendingRequests, settings, saves, toWebview, handlers,
    allowExternalFileAccess>>

sessionVars ==
  <<dbError, localSettings, initialMessage, duckdb, workers, boots, stopping, timers,
    clock, focusId, advances>>

vars == <<transferVars, brokerVars, sessionVars, toHost, failures>>

(* ------------------------------ helpers ------------------------------- *)

Min(a, b) == IF a < b THEN a ELSE b

\* mutant of Ceil: Math.floor in place of Math.ceil
CeilAsFloor(a, b) == a \div b

\* Math.ceil(totalSize / CHUNK_SIZE)
Ceil(a, b) == (a + b - 1) \div b

Slice(src, lo, hi) == [src |-> src, lo |-> lo, hi |-> hi]

\* bytes E followed by bytes B, as a normalised slice list
Concat(E, B) ==
  IF B.lo = B.hi THEN E
  ELSE IF E # <<>> /\ E[Len(E)].src = B.src /\ E[Len(E)].hi = B.lo
    THEN [E EXCEPT ![Len(E)].hi = B.hi]
    ELSE Append(E, B)

RECURSIVE ByteLength(_)
ByteLength(E) == IF E = <<>> THEN 0 ELSE (E[1].hi - E[1].lo) + ByteLength(Tail(E))

\* the whole buffer of size s named src
WholeBuffer(src, s) == IF s = 0 THEN <<>> ELSE <<Slice(src, 0, s)>>

isAbsolute(name) == name \in AbsoluteNames

Uri(scheme, path) == [scheme |-> scheme, path |-> path]

NoUri == Uri("none", <<>>)

\* a file of the file system: missing, or holding bytes
NoFile == [exists |-> FALSE, bytes |-> <<>>]
File(bytes) == [exists |-> TRUE, bytes |-> bytes]

resolveTargetUri(name) ==
  IF isAbsolute(name) THEN Uri("file", <<name>>)
  ELSE IF workspaceScheme # NoWorkspace THEN Uri(workspaceScheme, <<"workspace", name>>)
  ELSE Uri("file", <<"dirname", name>>)

Targets == {resolveTargetUri(n) : n \in Names}

Msg(type, name, src, lo, hi) ==
  [type |-> type, name |-> name, src |-> src, lo |-> lo, hi |-> hi]

(* ------------------- sandbox: chunked transfer (runCell) --------------- *)

IdleExport == [pc |-> "idle", name |-> NoName, size |-> 0, chunks |-> 0, i |-> 0]

\* buffer.slice(start, end) of iteration i, as the saveFileChunk message
ChunkMsg(e, name, size, i) ==
  Msg("saveFileChunk", name, <<"export", e>>, i * CHUNK_SIZE, Min(i * CHUNK_SIZE + CHUNK_SIZE, size))

Post(msgs) ==
  /\ toHost' = toHost \o msgs
  /\ sentLog' = sentLog \o msgs

\* runCell after a successful COPY ... TO 'name': db.copyFileToBuffer returned a buffer
\* of `size` bytes.  Posts saveFileStart and, in the same synchronous segment, the
\* first chunk (or saveFileEnd when there is no chunk), then awaits the 10 ms timer.
\* The await of db.dropFile after saveFileEnd changes nothing modelled here.
StartTransfer(e, name, size) ==
  /\ exports[e].pc = "idle"
  /\ \A o \in ExportIds : o < e => exports[o].pc # "idle"
  /\ LET chunks == Ceil(size, CHUNK_SIZE)
         start == Msg("saveFileStart", name, <<"export", e>>, 0, 0)
     IN IF 0 < chunks
          THEN /\ Post(<<start, ChunkMsg(e, name, size, 0)>>)
               /\ exports' = [exports EXCEPT ![e] =
                    [pc |-> "sleep", name |-> name, size |-> size, chunks |-> chunks, i |-> 0]]
          ELSE /\ Post(<<start, Msg("saveFileEnd", name, <<"export", e>>, 0, 0)>>)
               /\ exports' = [exports EXCEPT ![e] =
                    [pc |-> "done", name |-> name, size |-> size, chunks |-> chunks, i |-> 0]]
  /\ UNCHANGED <<workspaceScheme, writeQueue, writing, directs, files, hostLog, failures,
                 brokerVars, sessionVars>>

\* the setTimeout(r, 10) of the loop body fires: i++, then the next chunk or saveFileEnd
TransferTimer(e) ==
  /\ exports[e].pc = "sleep"
  /\ LET x == exports[e]
         i == x.i + 1
     IN IF i < x.chunks
          THEN /\ Post(<<ChunkMsg(e, x.name, x.size, i)>>)
               /\ exports' = [exports EXCEPT ![e].i = i]
          ELSE /\ Post(<<Msg("saveFileEnd", x.name, <<"export", e>>, 0, 0)>>)
               /\ exports' = [exports EXCEPT ![e].i = i, ![e].pc = "done"]
  /\ UNCHANGED <<workspaceScheme, writeQueue, writing, directs, files, hostLog, failures,
                 brokerVars, sessionVars>>

(* ------------------- sandbox: direct export (exportCell) --------------- *)

DirectSizes == {0, 1}

\* exportCell: the COPY and db.copyFileToBuffer succeeded; posts exportData
ExportCell(d, size) ==
  /\ directs[d].pc = "idle"
  /\ toHost' = Append(toHost, Msg("exportData", NoName, <<"direct", d>>, 0, size))
  /\ directs' = [directs EXCEPT ![d].pc = "posted"]
  /\ UNCHANGED <<workspaceScheme, exports, sentLog, writeQueue, writing, files, hostLog,
                 failures, brokerVars, sessionVars>>

(* ------------------------- host: write queue -------------------------- *)

\* a file-system call returns (ok) or throws; at most MaxFailures throw
IoOutcome(ok) ==
  /\ ok \/ failures < MaxFailures
  /\ failures' = IF ok THEN failures ELSE failures + 1

Logged(op, ok) == [op |-> op, ok |-> ok]

NoOp == [op |-> Msg("none", NoName, <<"none", 0>>, 0, 0), phase |-> "idle", existing |-> <<>>]

\* mutant of HostSaveFile: case "saveFileEnd" shows its notification at once instead of
\* chaining it on _fileWriteQueue
HostSaveFileEndNotQueued ==
  /\ toHost # <<>>
  /\ Head(toHost).type \in {"saveFileStart", "saveFileChunk", "saveFileEnd"}
  /\ IF Head(toHost).type = "saveFileEnd"
       THEN /\ hostLog' = Append(hostLog, Logged(Head(toHost), TRUE))
            /\ UNCHANGED writeQueue
       ELSE /\ writeQueue' = Append(writeQueue, Head(toHost))
            /\ UNCHANGED hostLog
  /\ toHost' = Tail(toHost)
  /\ UNCHANGED <<workspaceScheme, exports, sentLog, writing, directs, files, failures,
                 brokerVars, sessionVars>>

\* case "saveFileStart" / "saveFileChunk" / "saveFileEnd":
\* this._fileWriteQueue = this._fileWriteQueue.then(...)
HostSaveFile ==
  /\ toHost # <<>>
  /\ Head(toHost).type \in {"saveFileStart", "saveFileChunk", "saveFileEnd"}
  /\ writeQueue' = Append(writeQueue, Head(toHost))
  /\ toHost' = Tail(toHost)
  /\ UNCHANGED <<workspaceScheme, exports, sentLog, writing, directs, files, hostLog,
                 failures, brokerVars, sessionVars>>

QueueHead(type) ==
  /\ writing = NoOp
  /\ writeQueue # <<>>
  /\ Head(writeQueue).type = type

\* saveFileStart link: vscode.workspace.fs.writeFile(targetUri, new Uint8Array(0)) begins
StartLinkBegin ==
  /\ QueueHead("saveFileStart")
  /\ writing' = [op |-> Head(writeQueue), phase |-> "writeFile", existing |-> <<>>]
  /\ writeQueue' = Tail(writeQueue)
  /\ UNCHANGED <<workspaceScheme, exports, toHost, sentLog, directs, files, hostLog,
                 failures, brokerVars, sessionVars>>

\* ... and completes: the file is created empty, or the error is shown
StartLinkEnd(ok) ==
  /\ writing # NoOp
  /\ writing.op.type = "saveFileStart"
  /\ IoOutcome(ok)
  /\ files' = IF ok
       THEN [files EXCEPT ![resolveTargetUri(writing.op.name)] = File(<<>>)]
       ELSE files
  /\ hostLog' = Append(hostLog, Logged(writing.op, ok))
  /\ writing' = NoOp
  /\ UNCHANGED <<workspaceScheme, exports, toHost, sentLog, writeQueue, directs,
                 brokerVars, sessionVars>>

\* mutant of appendFileSync: the file is written anew with the buffer (fs.writeFileSync)
appendFileSyncTruncates(existing, buffer) == File(Concat(<<>>, buffer))

\* fs.appendFileSync(targetUri.fsPath, buffer): creates the file when it is missing
appendFileSync(existing, buffer) == File(Concat(existing.bytes, buffer))

\* mutant of ChunkLinkLocal: what appendFileSync throws is not caught, the promise of
\* the queue rejects and the links chained on it are skipped
ChunkLinkLocalRejects(ok) ==
  /\ QueueHead("saveFileChunk")
  /\ LET op == Head(writeQueue)
         t == resolveTargetUri(op.name)
     IN /\ t.scheme = "file"
        /\ IoOutcome(ok)
        /\ files' = IF ok
             THEN [files EXCEPT ![t] = appendFileSync(files[t], Slice(op.src, op.lo, op.hi))]
             ELSE files
        /\ hostLog' = Append(hostLog, Logged(op, ok))
  /\ writeQueue' = IF ok THEN Tail(writeQueue) ELSE <<>>
  /\ UNCHANGED <<workspaceScheme, exports, toHost, sentLog, writing, directs,
                 brokerVars, sessionVars>>

\* saveFileChunk link, targetUri.scheme === 'file'
ChunkLinkLocal(ok) ==
  /\ QueueHead("saveFileChunk")
  /\ LET op == Head(writeQueue)
         t == resolveTargetUri(op.name)
     IN /\ t.scheme = "file"
        /\ IoOutcome(ok)
        /\ files' = IF ok
             THEN [files EXCEPT ![t] = appendFileSync(files[t], Slice(op.src, op.lo, op.hi))]
             ELSE files
        /\ hostLog' = Append(hostLog, Logged(op, ok))
  /\ writeQueue' = Tail(writeQueue)
  /\ UNCHANGED <<workspaceScheme, exports, toHost, sentLog, writing, directs,
                 brokerVars, sessionVars>>

\* saveFileChunk link, other schemes: vscode.workspace.fs.readFile(targetUri) begins
ChunkLinkRemoteBegin ==
  /\ QueueHead("saveFileChunk")
  /\ resolveTargetUri(Head(writeQueue).name).scheme # "file"
  /\ writing' = [op |-> Head(writeQueue), phase |-> "readFile", existing |-> <<>>]
  /\ writeQueue' = Tail(writeQueue)
  /\ UNCHANGED <<workspaceScheme, exports, toHost, sentLog, directs, files, hostLog,
                 failures, brokerVars, sessionVars>>

\* readFile returns the existing bytes (it throws when the file is missing); writeFile begins
ChunkLinkRemoteRead(ok) ==
  /\ writing # NoOp
  /\ writing.op.type = "saveFileChunk"
  /\ writing.phase = "readFile"
  /\ LET t == resolveTargetUri(writing.op.name)
     IN IF ~files[t].exists \/ ~ok
          THEN /\ IF ~files[t].exists THEN UNCHANGED failures ELSE IoOutcome(FALSE)
               /\ hostLog' = Append(hostLog, Logged(writing.op, FALSE))
               /\ writing' = NoOp
          ELSE /\ UNCHANGED <<failures, hostLog>>
               /\ writing' = [writing EXCEPT !.phase = "writeFile", !.existing = files[t].bytes]
  /\ UNCHANGED <<workspaceScheme, exports, toHost, sentLog, writeQueue, directs, files,
                 brokerVars, sessionVars>>

\* newBuffer = existing ++ buffer; vscode.workspace.fs.writeFile(targetUri, newBuffer)
ChunkLinkRemoteWrite(ok) ==
  /\ writing # NoOp
  /\ writing.op.type = "saveFileChunk"
  /\ writing.phase = "writeFile"
  /\ IoOutcome(ok)
  /\ LET op == writing.op
         t == resolveTargetUri(op.name)
     IN /\ files' = IF ok
             THEN [files EXCEPT ![t] =
                    File(Concat(writing.existing, Slice(op.src, op.lo, op.hi)))]
             ELSE files
        /\ hostLog' = Append(hostLog, Logged(op, ok))
  /\ writing' = NoOp
  /\ UNCHANGED <<workspaceScheme, exports, toHost, sentLog, writeQueue, directs,
                 brokerVars, sessionVars>>

\* saveFileEnd link: showInformationMessage(`Saved ${name} to project root.`)
EndLink ==
  /\ QueueHead("saveFileEnd")
  /\ hostLog' = Append(hostLog, Logged(Head(writeQueue), TRUE))
  /\ writeQueue' = Tail(writeQueue)
  /\ UNCHANGED <<workspaceScheme, exports, toHost, sentLog, writing, directs, files,
                 failures, brokerVars, sessionVars>>

(* ------------------------- host: exportData --------------------------- *)

IdleDirect == [pc |-> "idle", data |-> <<>>, uri |-> NoUri, conn |-> 0]

\* a file the user may pick in the save dialog that no chunked export targets
Elsewhere == Uri("file", <<"saved", "result">>)

AllTargets == Targets \cup {Elsewhere}

\* case "exportData": vscode.window.showSaveDialog(...) is shown
HostExportData ==
  /\ toHost # <<>>
  /\ Head(toHost).type = "exportData"
  /\ LET m == Head(toHost)
     IN directs' = [directs EXCEPT ![m.src[2]] =
          [pc |-> "dialog", data |-> WholeBuffer(m.src, m.hi), uri |-> NoUri]]
  /\ toHost' = Tail(toHost)
  /\ UNCHANGED <<workspaceScheme, exports, sentLog, writeQueue, writing, files, hostLog,
                 failures, brokerVars, sessionVars>>

\* the user picks a file or cancels; if (uri) vscode.workspace.fs.writeFile(uri, buffer) begins
SaveDialogAnswered(d, uri) ==
  /\ directs[d].pc = "dialog"
  /\ directs' = [directs EXCEPT ![d].pc = IF uri = NoUri THEN "done" ELSE "writeFile",
                                ![d].uri = uri]
  /\ UNCHANGED <<workspaceScheme, exports, toHost, sentLog, writeQueue, writing, files,
                 hostLog, failures, brokerVars, sessionVars>>

\* the writeFile of exportData completes: "Successfully exported" or "Export failed"
DirectWriteEnd(d, ok) ==
  /\ directs[d].pc = "writeFile"
  /\ IoOutcome(ok)
  /\ files' = IF ok THEN [files EXCEPT ![directs[d].uri] = File(directs[d].data)] ELSE files
  /\ hostLog' = Append(hostLog, Logged(Msg("exportData", NoName, <<"direct", d>>, 0, 0), ok))
  /\ directs' = [directs EXCEPT ![d].pc = "done"]
  /\ UNCHANGED <<workspaceScheme, exports, toHost, sentLog, writeQueue, writing,
                 brokerVars, sessionVars>>


(* ------------------ sandbox: cells and runCell ------------------------- *)

NoRun == 0
NoPath == ""
\* focusId when null, and an id that no cell has
NoCell == 0
NoError == <<>>

\* a field of CellData that is absent
Undefined == <<"undefined">>

\* { id, query, status: 'idle' }
Cell(id, query) ==
  [id |-> id, query |-> query, status |-> "idle", error |-> NoError,
   rows |-> Undefined, columns |-> Undefined, columnTypes |-> Undefined]

\* two cells with a query and one empty cell
InitialCells == <<Cell(1, "SELECT"), Cell(2, "SELECT"), Cell(3, "")>>

CellIds == {1, 2, 3}

HasCell(id) == \E k \in 1..Len(cells) : cells[k].id = id

\* cells.find(c => c.id === id)
FindCell(id) == cells[CHOOSE k \in 1..Len(cells) : cells[k].id = id]

\* cell.query.trim()
trim(q) == q

\* { ...c, ...updates }
Spread(c, updates) ==
  [f \in DOMAIN c |-> IF f \in DOMAIN updates THEN updates[f] ELSE c[f]]

\* updateCell: setCells(prev => prev.map(c => c.id === id ? { ...c, ...updates } : c))
updateCell(cs, id, updates) ==
  [k \in 1..Len(cs) |-> IF cs[k].id = id THEN Spread(cs[k], updates) ELSE cs[k]]

\* window.duckdbWorker / duckdbInstance / duckdbConnection when null
NoWorker == 0

FreeRun ==
  [pc |-> "free", id |-> 0, query |-> "", conn |-> NoWorker, db |-> NoWorker,
   filePath |-> NoPath, engineCalls |-> 0, result |-> "none", error |-> NoError,
   export |-> "none"]

\* the loadData payload: the host sends the extension in lower case and the base name
\* without it
Extensions == {".csv", ".parquet"}

Payload(extension, allow) ==
  [type |-> "loadData", fileName |-> "f",
   filePath |-> IF extension = ".parquet" THEN "/data/f.parquet" ELSE "/data/f.csv",
   extension |-> extension, config |-> allow]

Payloads == {Payload(x, a) : x \in Extensions, a \in BOOLEAN}

NoMessage == [type |-> "none", fileName |-> "", filePath |-> "", extension |-> "",
              config |-> FALSE]

\* setupQuery of initializeDuckDB, for tableName 'data' and readCommand by extension
setupQuery(message) ==
  IF message.extension = ".parquet"
    THEN "CREATE OR REPLACE TABLE data AS SELECT * FROM read_parquet('/data/f.parquet');\n-- COPY data TO 'f_backup.parquet';"
    ELSE "CREATE OR REPLACE TABLE data AS SELECT * FROM read_csv_auto('/data/f.csv', allow_quoted_nulls=false, header=true);\n-- COPY data TO 'f_backup.parquet';"

describeQuery == "DESCRIBE data;"

PreviewLimits == {5, 10}

previewQuery(previewLimit) ==
  IF previewLimit = 5 THEN "SELECT * FROM data LIMIT 5;" ELSE "SELECT * FROM data LIMIT 10;"

\* what the user types into a cell
CopyQuery == "COPY data TO 'out.parquet'"
UserQueries == {"SELECT", CopyQuery, ""}

\* cell.query.match(/COPY\s+(?:.*|\(.*?\))\s+TO\s+'([^']+)'/i): copyMatch[1].  The second
\* line of the setup query, a comment, matches too.
copyMatch(query) ==
  IF query = CopyQuery THEN "out.parquet"
  ELSE IF query \in {setupQuery(m) : m \in Payloads} THEN "f_backup.parquet"
  ELSE NoName

\* a query result: res.toArray() and res.schema.fields
Result(rows, fields) == [rows |-> rows, fields |-> fields]
Field(name, type) == [name |-> name, type |-> type]

\* the result the engine returns for a query on the loaded data: two rows of two
\* columns for a SELECT or DESCRIBE, a count for other statements, and for a COPY no
\* row and no column
EngineResult(query) ==
  IF query \in {"SELECT", "DESCRIBE data;", "SELECT * FROM data LIMIT 5;",
                "SELECT * FROM data LIMIT 10;"}
    THEN Result(<<"r1", "r2">>, <<Field("a", "INTEGER"), Field("b", "VARCHAR")>>)
  ELSE IF query = "COPY data TO 'out.parquet'"
    THEN Result(<<>>, <<>>)
  ELSE Result(<<"r1">>, <<Field("Count", "BIGINT")>>)

\* result.toArray().map(row => row.toJSON())
toArray(res) == res.rows

\* result.schema.fields.map(f => f.name)
fieldNames(res) == [i \in 1..Len(res.fields) |-> res.fields[i].name]

\* mutant of fieldTypes: the types are read from the names of the fields
fieldTypesFromNames(res) == [i \in 1..Len(res.fields) |-> res.fields[i].name]

\* result.schema.fields.map(f => String(f.type))
fieldTypes(res) == [i \in 1..Len(res.fields) |-> res.fields[i].type]

\* mutant of SuccessUpdate: the column types are left out of the update
SuccessUpdateNoTypes(res) ==
  [status |-> "success", rows |-> toArray(res), columns |-> fieldNames(res)]

\* { status: 'success', rows, columns, columnTypes, executionTime }
SuccessUpdate(res) ==
  [status |-> "success", rows |-> toArray(res), columns |-> fieldNames(res),
   columnTypes |-> fieldTypes(res)]

\* { status: 'error', error: err.message }
ErrorUpdate(error) == [status |-> "error", error |-> error]

\* what conn.query and db.registerFileBuffer may do: return, or throw with a message
MissingFileText == "IO Error: No files found that match the pattern "
EngineOk == <<>>
EngineMissing(p) == <<MissingFileText, p>>
EngineOther == <<"Binder Error">>
EngineOutcomes == {EngineOk, EngineOther} \cup {EngineMissing(p) : p \in Paths}

\* errorMsg.match(/IO Error: No files found that match the pattern "([^"]+)"/): match[1]
MatchMissing(msg) ==
  IF Len(msg) = 2 /\ msg[1] = MissingFileText /\ msg[2] # NoPath THEN msg[2] ELSE NoPath

AccessDenied(msg) == <<"File Access Denied: ">> \o msg

\* the updateCell of the catch of runCell, which ends the run
Finish(r, status, error) ==
  /\ cells' = updateCell(cells, runs[r].id, [status |-> status, error |-> error])
  /\ runs' = [runs EXCEPT ![r].pc = "done", ![r].result = status, ![r].error = error]

\* the updateCell after executeQuery returned; a query that matches the COPY pattern
\* goes on to db.copyFileToBuffer when window.duckdbInstance is set
Succeed(r, res) ==
  /\ cells' = updateCell(cells, runs[r].id, SuccessUpdate(res))
  /\ runs' = [runs EXCEPT
       ![r].pc = IF copyMatch(runs[r].query) # NoName /\ duckdb.instance # NoWorker
                   THEN "copyFileToBuffer" ELSE "done",
       ![r].db = duckdb.instance,
       ![r].result = "success"]

\* the worker a pending engine call was sent to still runs; a call sent to a worker
\* that was terminated never settles
Settles(worker) == worker # NoWorker /\ workers[worker] = "live"

\* the notebook is rendered: neither the error screen nor the loading screen
Screen ==
  IF dbError # NoError THEN "error" ELSE IF ~dbReady THEN "loading" ELSE "notebook"

Running == [status |-> "running", error |-> NoError]

\* mutant of RunCell: a blank query is sent to the engine like any other
RunCellSendsBlank(r, id) ==
  /\ runs[r].pc = "free"
  /\ \A o \in RunIds : o < r => runs[o].pc # "free"
  /\ IF HasCell(id) /\ dbReady
       THEN /\ Screen = "notebook"
            /\ IF duckdb.conn = NoWorker
                 THEN /\ cells' = updateCell(updateCell(cells, id, Running), id,
                                             ErrorUpdate(<<"Database not connected">>))
                      /\ UNCHANGED runs
                 ELSE /\ cells' = updateCell(cells, id, Running)
                      /\ runs' = [runs EXCEPT ![r] =
                           [FreeRun EXCEPT !.pc = "query", !.id = id,
                                           !.query = FindCell(id).query,
                                           !.conn = duckdb.conn, !.engineCalls = 1]]
       ELSE UNCHANGED <<cells, runs>>
  /\ UNCHANGED <<transferVars, sessionVars,
                 toHost, failures, dbReady, pendingRequests, settings, saves,
                 toWebview, handlers, allowExternalFileAccess>>

\* mutant of RunCell: the readiness of the session is not checked
RunCellWhenNotReady(r, id) ==
  /\ runs[r].pc = "free"
  /\ \A o \in RunIds : o < r => runs[o].pc # "free"
  /\ IF HasCell(id)
       THEN /\ dbReady => Screen = "notebook"
            /\ IF duckdb.conn = NoWorker
                 THEN /\ cells' = updateCell(updateCell(cells, id, Running), id,
                                             ErrorUpdate(<<"Database not connected">>))
                      /\ UNCHANGED runs
                 ELSE IF trim(FindCell(id).query) = ""
                   THEN /\ cells' = updateCell(updateCell(cells, id, Running), id,
                                               [status |-> "idle"])
                        /\ UNCHANGED runs
                   ELSE /\ cells' = updateCell(cells, id, Running)
                        /\ runs' = [runs EXCEPT ![r] =
                             [FreeRun EXCEPT !.pc = "query", !.id = id,
                                             !.query = FindCell(id).query,
                                             !.conn = duckdb.conn, !.engineCalls = 1]]
       ELSE UNCHANGED <<cells, runs>>
  /\ UNCHANGED <<transferVars, sessionVars,
                 toHost, failures, dbReady, pendingRequests, settings, saves,
                 toWebview, handlers, allowExternalFileAccess>>

\* runCell up to its first await: the early return of the guards (no cell of that id,
\* or the session is not ready), updateCell(running), the connection check, the
\* blank-query return, and the call of conn.query.  The cells are shown, and run can
\* be pressed, on the notebook screen.
RunCell(r, id) ==
  /\ runs[r].pc = "free"
  /\ \A o \in RunIds : o < r => runs[o].pc # "free"
  /\ IF HasCell(id) /\ dbReady
       THEN /\ Screen = "notebook"
            /\ IF duckdb.conn = NoWorker
                 THEN /\ cells' = updateCell(updateCell(cells, id, Running), id,
                                             ErrorUpdate(<<"Database not connected">>))
                      /\ UNCHANGED runs
                 ELSE IF trim(FindCell(id).query) = ""
                   THEN /\ cells' = updateCell(updateCell(cells, id, Running), id,
                                               [status |-> "idle"])
                        /\ UNCHANGED runs
                   ELSE /\ cells' = updateCell(cells, id, Running)
                        /\ runs' = [runs EXCEPT ![r] =
                             [FreeRun EXCEPT !.pc = "query", !.id = id,
                                             !.query = FindCell(id).query,
                                             !.conn = duckdb.conn, !.engineCalls = 1]]
       ELSE UNCHANGED <<cells, runs>>
  /\ UNCHANGED <<transferVars, sessionVars,
                 toHost, failures, dbReady, pendingRequests, settings, saves,
                 toWebview, handlers, allowExternalFileAccess>>

\* mutant of requestFileAccess: a handle that is pending for the path is kept
requestFileAccessKeepsFirst(r, filePath) ==
  /\ pendingRequests' = IF pendingRequests[filePath] = NoRun
                          THEN [pendingRequests EXCEPT ![filePath] = r]
                          ELSE pendingRequests
  /\ toHost' = Append(toHost, [type |-> "requestFileAccess", filePath |-> filePath, run |-> r])

\* requestFileAccess: pendingRequests.current.set(filePath, ...) and the postMessage
requestFileAccess(r, filePath) ==
  /\ pendingRequests' = [pendingRequests EXCEPT ![filePath] = r]
  /\ toHost' = Append(toHost, [type |-> "requestFileAccess", filePath |-> filePath, run |-> r])

\* executeQuery: the first conn.query returns or throws
QueryReturns(r, out) ==
  /\ runs[r].pc = "query"
  /\ Settles(runs[r].conn)
  /\ IF out = EngineOk
       THEN /\ Succeed(r, EngineResult(runs[r].query))
            /\ UNCHANGED <<pendingRequests, toHost>>
       ELSE IF MatchMissing(out) # NoPath
         THEN /\ requestFileAccess(r, MatchMissing(out))
              /\ runs' = [runs EXCEPT ![r].pc = "requestFileAccess",
                                      ![r].filePath = MatchMissing(out)]
              /\ UNCHANGED cells
         ELSE /\ Finish(r, "error", out)
              /\ UNCHANGED <<pendingRequests, toHost>>
  /\ UNCHANGED <<transferVars, sessionVars, failures, dbReady, settings, saves, toWebview, handlers,
                 allowExternalFileAccess>>

\* mutant of HandleMessage: the entry of the path is not deleted
HandleMessageKeepsEntry ==
  /\ toWebview # <<>>
  /\ Head(toWebview).type \in {"fileAccessGranted", "fileAccessDenied"}
  /\ LET m == Head(toWebview)
         request == pendingRequests[m.filePath]
     IN /\ IF request # NoRun
             THEN /\ pendingRequests' = pendingRequests
                  /\ IF m.type = "fileAccessGranted"
                       THEN IF duckdb.instance # NoWorker
                              THEN /\ runs' = [runs EXCEPT
                                        ![request].pc = "registerFileBuffer",
                                        ![request].db = duckdb.instance]
                                   /\ UNCHANGED cells
                              ELSE Finish(request, "error",
                                          AccessDenied(<<"Cannot read properties of null">>))
                       ELSE Finish(request, "error", AccessDenied(m.error))
             ELSE UNCHANGED <<pendingRequests, runs, cells>>
        /\ handlers' = [handlers EXCEPT ![m.handler].delivered = TRUE]
  /\ toWebview' = Tail(toWebview)
  /\ UNCHANGED <<transferVars, sessionVars, toHost, failures, dbReady, settings, saves,
                 allowExternalFileAccess>>

\* handleMessage, case 'fileAccessGranted' / 'fileAccessDenied', and the continuation of
\* the run whose handle is settled: db.registerFileBuffer is called, or the rejection is
\* rethrown as "File Access Denied: ..." and ends the run
HandleMessage ==
  /\ toWebview # <<>>
  /\ Head(toWebview).type \in {"fileAccessGranted", "fileAccessDenied"}
  /\ LET m == Head(toWebview)
         request == pendingRequests[m.filePath]
     IN /\ IF request # NoRun
             THEN /\ pendingRequests' = [pendingRequests EXCEPT ![m.filePath] = NoRun]
                  /\ IF m.type = "fileAccessGranted"
                       THEN IF duckdb.instance # NoWorker
                              THEN /\ runs' = [runs EXCEPT
                                        ![request].pc = "registerFileBuffer",
                                        ![request].db = duckdb.instance]
                                   /\ UNCHANGED cells
                              ELSE Finish(request, "error",
                                          AccessDenied(<<"Cannot read properties of null">>))
                       ELSE Finish(request, "error", AccessDenied(m.error))
             ELSE UNCHANGED <<pendingRequests, runs, cells>>
        /\ handlers' = [handlers EXCEPT ![m.handler].delivered = TRUE]
  /\ toWebview' = Tail(toWebview)
  /\ UNCHANGED <<transferVars, sessionVars, toHost, failures, dbReady, settings, saves,
                 allowExternalFileAccess>>

\* db.registerFileBuffer returns (the retry conn.query is called) or throws
RegisterReturns(r, ok) ==
  /\ runs[r].pc = "registerFileBuffer"
  /\ Settles(runs[r].db)
  /\ IF ok
       THEN /\ runs' = [runs EXCEPT ![r].pc = "retry", ![r].engineCalls = @ + 1]
            /\ UNCHANGED cells
       ELSE Finish(r, "error", AccessDenied(<<"registerFileBuffer failed">>))
  /\ UNCHANGED <<transferVars, sessionVars,
                 toHost, failures, dbReady, pendingRequests, settings, saves,
                 toWebview, handlers, allowExternalFileAccess>>

\* mutant of RetryReturns: a missing-file error of the retry asks for access again
RetryReturnsAsksAgain(r, out) ==
  /\ runs[r].pc = "retry"
  /\ Settles(runs[r].conn)
  /\ IF out = EngineOk
       THEN /\ Succeed(r, EngineResult(runs[r].query))
            /\ UNCHANGED <<pendingRequests, toHost>>
       ELSE IF MatchMissing(out) # NoPath
         THEN /\ requestFileAccess(r, MatchMissing(out))
              /\ runs' = [runs EXCEPT ![r].pc = "requestFileAccess",
                                      ![r].filePath = MatchMissing(out)]
              /\ UNCHANGED cells
         ELSE /\ Finish(r, "error", AccessDenied(out))
              /\ UNCHANGED <<pendingRequests, toHost>>
  /\ UNCHANGED <<transferVars, sessionVars, failures, dbReady, settings, saves, toWebview, handlers,
                 allowExternalFileAccess>>

\* the retry conn.query returns or throws; a throw is caught by catch (accessErr)
RetryReturns(r, out) ==
  /\ runs[r].pc = "retry"
  /\ Settles(runs[r].conn)
  /\ IF out = EngineOk
       THEN Succeed(r, EngineResult(runs[r].query))
       ELSE Finish(r, "error", AccessDenied(out))
  /\ UNCHANGED <<transferVars, sessionVars,
                 toHost, failures, dbReady, pendingRequests, settings, saves,
                 toWebview, handlers, allowExternalFileAccess>>

\* saveSettings: the modal hands back the settings it was opened with, so
\* newSettings.allowExternalFileAccess is the sandbox's value; it is always posted
saveSettings(newSettings) ==
  /\ Screen = "notebook"
  /\ saves < MaxSaves
  /\ saves' = saves + 1
  /\ localSettings' = newSettings
  /\ toHost' = Append(toHost, [type |-> "updateConfiguration",
                               key |-> "allowExternalFileAccess", value |-> settings])
  /\ UNCHANGED <<transferVars, failures, cells, dbReady, runs, pendingRequests, settings,
                 toWebview, handlers, allowExternalFileAccess, dbError, initialMessage,
                 duckdb, workers, boots, stopping, timers, clock,
                 focusId, advances>>

\* the awaits of the COPY export of runCell
ExportStages == {"copyFileToBuffer", "transfer", "dropFile"}

\* mutant of ExportStep: what the export throws reaches the catch of runCell
ExportStepFailsCell(r, ok) ==
  /\ runs[r].pc \in ExportStages
  /\ runs[r].pc \in {"copyFileToBuffer", "dropFile"} => Settles(runs[r].db)
  /\ IF ok
       THEN /\ runs' = [runs EXCEPT
                 ![r].pc = IF @ = "copyFileToBuffer" THEN "transfer"
                           ELSE IF @ = "transfer" THEN "dropFile"
                           ELSE "done",
                 ![r].export = IF runs[r].pc = "dropFile" THEN "sent" ELSE @]
            /\ UNCHANGED cells
       ELSE /\ cells' = updateCell(cells, runs[r].id, ErrorUpdate(<<"export failed">>))
            /\ runs' = [runs EXCEPT ![r].pc = "done", ![r].export = "failed"]
  /\ UNCHANGED <<transferVars, sessionVars, toHost, failures, dbReady,
                 pendingRequests, settings, saves, toWebview, handlers,
                 allowExternalFileAccess>>

\* runCell after a successful query that matches the COPY pattern: db.copyFileToBuffer,
\* the chunked transfer and db.dropFile, one after the other.  Whatever throws is
\* caught and logged: "Don't fail the cell execution".
ExportStep(r, ok) ==
  /\ runs[r].pc \in ExportStages
  /\ runs[r].pc \in {"copyFileToBuffer", "dropFile"} => Settles(runs[r].db)
  /\ runs' = [runs EXCEPT
       ![r].pc = IF ~ok THEN "done"
                 ELSE IF @ = "copyFileToBuffer" THEN "transfer"
                 ELSE IF @ = "transfer" THEN "dropFile"
                 ELSE "done",
       ![r].export = IF ~ok THEN "failed"
                     ELSE IF runs[r].pc = "dropFile" THEN "sent" ELSE @]
  /\ UNCHANGED <<transferVars, sessionVars, toHost, failures, cells, dbReady,
                 pendingRequests, settings, saves, toWebview, handlers,
                 allowExternalFileAccess>>

ExportFailed(error) == <<"Export failed: ">> \o error

\* exportCell up to its first await: the guards, the connection check and the call of
\* conn.query(copyQuery).  The export buttons are shown on a Success cell.
exportCell(d, id) ==
  /\ directs[d].pc = "idle"
  /\ \A o \in DirectIds : o < d => directs[o].pc # "idle"
  /\ Screen = "notebook"
  /\ HasCell(id)
  /\ FindCell(id).status = "success"
  /\ dbReady
  /\ IF duckdb.conn = NoWorker
       THEN /\ dbError' = ExportFailed(<<"Database not connected">>)
            /\ directs' = [directs EXCEPT ![d].pc = "failed"]
       ELSE /\ directs' = [directs EXCEPT ![d].pc = "copying", ![d].conn = duckdb.conn]
            /\ UNCHANGED dbError
  /\ UNCHANGED <<workspaceScheme, exports, sentLog, writeQueue, writing, files, hostLog,
                 toHost, failures, brokerVars, localSettings, initialMessage, duckdb,
                 workers, boots, stopping, timers, clock,
                 focusId, advances>>

\* conn.query(copyQuery) or db.copyFileToBuffer throws: catch, setDbError
ExportCellThrows(d) ==
  /\ directs[d].pc = "copying"
  /\ Settles(directs[d].conn)
  /\ dbError' = ExportFailed(<<"Binder Error">>)
  /\ directs' = [directs EXCEPT ![d].pc = "failed"]
  /\ UNCHANGED <<workspaceScheme, exports, sentLog, writeQueue, writing, files, hostLog,
                 toHost, failures, brokerVars, localSettings, initialMessage, duckdb,
                 workers, boots, stopping, timers, clock,
                 focusId, advances>>

\* conn.query(copyQuery) and db.copyFileToBuffer returned: exportData is posted
ExportCellPosts(d, size) ==
  /\ directs[d].pc = "copying"
  /\ Settles(directs[d].conn)
  /\ toHost' = Append(toHost, Msg("exportData", NoName, <<"direct", d>>, 0, size))
  /\ directs' = [directs EXCEPT ![d].pc = "posted"]
  /\ UNCHANGED <<workspaceScheme, exports, sentLog, writeQueue, writing, files, hostLog,
                 failures, brokerVars, sessionVars>>

(* ------------------- host: requestFileAccess --------------------------- *)

Selections == {"Allow", "Allow and Remember", "Deny", "dismissed"}

DoneHandlers == {h \in 1..Len(handlers) : handlers[h].pc = "done"}

\* mutant of Reply: the message is posted and the handler goes on, to post once more
ReplyTwice(h, type, error) ==
  /\ toWebview' = Append(toWebview,
       [type |-> type, filePath |-> handlers[h].filePath, error |-> error, handler |-> h])
  /\ handlers' = [handlers EXCEPT ![h].reply = type, ![h].error = error]

\* webview.postMessage({ type, filePath, data | error })
Reply(h, type, error) ==
  /\ toWebview' = Append(toWebview,
       [type |-> type, filePath |-> handlers[h].filePath, error |-> error, handler |-> h])
  /\ handlers' = [handlers EXCEPT ![h].pc = "done", ![h].reply = type, ![h].error = error]

\* case "requestFileAccess" up to its first await: config.get, then readFile or the prompt
HostRequestFileAccess ==
  /\ toHost # <<>>
  /\ Head(toHost).type = "requestFileAccess"
  /\ LET allowExternal == allowExternalFileAccess
     IN handlers' = Append(handlers,
          [filePath |-> Head(toHost).filePath, run |-> Head(toHost).run,
           pc |-> IF allowExternal THEN "readFile" ELSE "prompt",
           allowExternal |-> allowExternal, selection |-> "none",
           reply |-> "none", error |-> NoError, delivered |-> FALSE,
           doneBefore |-> DoneHandlers])
  /\ toHost' = Tail(toHost)
  /\ UNCHANGED <<transferVars, sessionVars,
                 failures, cells, dbReady, runs, pendingRequests, settings,
                 saves, toWebview, allowExternalFileAccess>>

\* mutant of PromptAnswered: every answer but "Deny" is taken as Allow (a dismissed
\* prompt grants)
PromptAnsweredUnlessDeny(h, selection) ==
  /\ handlers[h].pc = "prompt"
  /\ IF selection = "Allow and Remember"
       THEN /\ handlers' = [handlers EXCEPT ![h].pc = "update", ![h].selection = selection]
            /\ UNCHANGED toWebview
       ELSE IF selection # "Deny"
         THEN /\ handlers' = [handlers EXCEPT ![h].pc = "readFile", ![h].selection = selection]
              /\ UNCHANGED toWebview
         ELSE /\ toWebview' = Append(toWebview,
                   [type |-> "fileAccessDenied", filePath |-> handlers[h].filePath,
                    error |-> <<"User denied access">>, handler |-> h])
              /\ handlers' = [handlers EXCEPT ![h].pc = "done", ![h].selection = selection,
                                              ![h].reply = "fileAccessDenied",
                                              ![h].error = <<"User denied access">>]
  /\ UNCHANGED <<transferVars, sessionVars, toHost, failures, cells, dbReady, runs, pendingRequests,
                 settings, saves, allowExternalFileAccess>>

\* mutant of PromptAnswered: a plain Allow persists the setting too
PromptAnsweredAllowPersists(h, selection) ==
  /\ handlers[h].pc = "prompt"
  /\ IF selection \in {"Allow", "Allow and Remember"}
       THEN /\ handlers' = [handlers EXCEPT ![h].pc = "update", ![h].selection = selection]
            /\ UNCHANGED toWebview
       ELSE /\ toWebview' = Append(toWebview,
                 [type |-> "fileAccessDenied", filePath |-> handlers[h].filePath,
                  error |-> <<"User denied access">>, handler |-> h])
            /\ handlers' = [handlers EXCEPT ![h].pc = "done", ![h].selection = selection,
                                            ![h].reply = "fileAccessDenied",
                                            ![h].error = <<"User denied access">>]
  /\ UNCHANGED <<transferVars, sessionVars, toHost, failures, cells, dbReady, runs, pendingRequests,
                 settings, saves, allowExternalFileAccess>>

\* showWarningMessage resolves with the button clicked, or undefined when dismissed
PromptAnswered(h, selection) ==
  /\ handlers[h].pc = "prompt"
  /\ IF selection = "Allow"
       THEN /\ handlers' = [handlers EXCEPT ![h].pc = "readFile", ![h].selection = selection]
            /\ UNCHANGED toWebview
       ELSE IF selection = "Allow and Remember"
         THEN /\ handlers' = [handlers EXCEPT ![h].pc = "update", ![h].selection = selection]
              /\ UNCHANGED toWebview
         ELSE /\ toWebview' = Append(toWebview,
                   [type |-> "fileAccessDenied", filePath |-> handlers[h].filePath,
                    error |-> <<"User denied access">>, handler |-> h])
              /\ handlers' = [handlers EXCEPT ![h].pc = "done", ![h].selection = selection,
                                              ![h].reply = "fileAccessDenied",
                                              ![h].error = <<"User denied access">>]
  /\ UNCHANGED <<transferVars, sessionVars, toHost, failures, cells, dbReady, runs, pendingRequests,
                 settings, saves, allowExternalFileAccess>>

\* config.update("allowExternalFileAccess", true, Global) resolves, or rejects (catch)
ConfigUpdated(h, ok) ==
  /\ handlers[h].pc = "update"
  /\ IoOutcome(ok)
  /\ IF ok
       THEN /\ allowExternalFileAccess' = TRUE
            /\ handlers' = [handlers EXCEPT ![h].pc = "readFile"]
            /\ UNCHANGED toWebview
       ELSE /\ Reply(h, "fileAccessDenied", <<"Unable to write settings">>)
            /\ UNCHANGED allowExternalFileAccess
  /\ UNCHANGED <<transferVars, sessionVars, toHost, cells, dbReady, runs, pendingRequests, settings,
                 saves>>

\* mutant of FileRead: a failed read is reported as a denial by the user
FileReadReportsDeny(h, ok) ==
  /\ handlers[h].pc = "readFile"
  /\ IoOutcome(ok)
  /\ IF ok
       THEN Reply(h, "fileAccessGranted", NoError)
       ELSE Reply(h, "fileAccessDenied", <<"User denied access">>)
  /\ UNCHANGED <<transferVars, sessionVars, toHost, cells, dbReady, runs, pendingRequests, settings,
                 saves, allowExternalFileAccess>>

\* vscode.workspace.fs.readFile(fileUri) resolves (granted) or rejects (catch: denied)
FileRead(h, ok) ==
  /\ handlers[h].pc = "readFile"
  /\ IoOutcome(ok)
  /\ IF ok
       THEN Reply(h, "fileAccessGranted", NoError)
       ELSE Reply(h, "fileAccessDenied", <<"ENOENT">>)
  /\ UNCHANGED <<transferVars, sessionVars, toHost, cells, dbReady, runs, pendingRequests, settings,
                 saves, allowExternalFileAccess>>

\* case "updateConfiguration": config.update(key, value, Global)
HostUpdateConfiguration ==
  /\ toHost # <<>>
  /\ Head(toHost).type = "updateConfiguration"
  /\ allowExternalFileAccess' = Head(toHost).value
  /\ toHost' = Tail(toHost)
  /\ UNCHANGED <<transferVars, sessionVars,
                 failures, cells, dbReady, runs, pendingRequests, settings,
                 saves, toWebview, handlers>>

(* ------------- sandbox: session lifecycle (initializeDuckDB) ------------- *)

LocalSettings == [showDescribe : BOOLEAN, previewLimit : PreviewLimits]

\* the defaults of useState
DefaultSettings == [showDescribe |-> TRUE, previewLimit |-> 5]

NoDuckdb == [worker |-> NoWorker, instance |-> NoWorker, conn |-> NoWorker]

FreeBoot ==
  [pc |-> "free", message |-> NoMessage, currentSettings |-> DefaultSettings,
   initialCells |-> <<>>, i |-> 0]

\* the grace delay of stopCell, in ms
GraceDelay == 100

\* mutant of initialCells: the preview limit of a replay is not the one of the settings
initialCellsOtherLimit(message, currentSettings, now) ==
  <<Cell(now, setupQuery(message))>>
  \o (IF currentSettings.showDescribe THEN <<Cell(now + 1, describeQuery)>> ELSE <<>>)
  \o <<Cell(now + 2, previewQuery(IF now < GraceDelay THEN currentSettings.previewLimit
                                   ELSE 15 - currentSettings.previewLimit)),
       Cell(now + 3, "")>>

\* initialCells of initializeDuckDB at time now: setup, describe (if enabled), preview
\* and an empty cell, with ids `cell-${Date.now() + k}`
initialCells(message, currentSettings, now) ==
  <<Cell(now, setupQuery(message))>>
  \o (IF currentSettings.showDescribe THEN <<Cell(now + 1, describeQuery)>> ELSE <<>>)
  \o <<Cell(now + 2, previewQuery(currentSettings.previewLimit)), Cell(now + 3, "")>>

\* first index >= i of a cell of the chain that has a query, or 0
NextInChain(cs, i) ==
  IF \E k \in i..Len(cs) : cs[k].query # ""
    THEN CHOOSE k \in i..Len(cs) : cs[k].query # "" /\ \A j \in i..(k - 1) : cs[j].query = ""
    ELSE 0

\* initializeDuckDB up to its first await (the dynamic import)
initializeDuckDB(b, message) ==
  /\ boots[b].pc = "free"
  /\ \A o \in BootIds : o < b => boots[o].pc # "free"
  /\ initialMessage' = message
  /\ settings' = message.config
  /\ boots' = [boots EXCEPT ![b] =
       [FreeBoot EXCEPT !.pc = "import", !.message = message,
                        !.currentSettings = localSettings]]

\* mutant of BootFails: the error is logged and the session error is not set
BootFailsSilently(b, error) ==
  /\ dbError' = dbError
  /\ boots' = [boots EXCEPT ![b].pc = "failed"]

\* catch (err) of initializeDuckDB: setDbError(err.message)
BootFails(b, error) ==
  /\ dbError' = error
  /\ boots' = [boots EXCEPT ![b].pc = "failed"]

\* handleMessage, case 'loadData'
HandleLoadData ==
  /\ toWebview # <<>>
  /\ Head(toWebview).type = "loadData"
  /\ \E b \in BootIds : initializeDuckDB(b, Head(toWebview))
  /\ toWebview' = Tail(toWebview)
  /\ UNCHANGED <<transferVars, toHost, failures, cells, dbReady, runs, pendingRequests,
                 saves, handlers, allowExternalFileAccess, dbError, localSettings, duckdb,
                 workers, stopping, timers, clock,
                 focusId, advances>>

\* the import settled: the worker is created and db.instantiate is called
ImportReturns(b, ok) ==
  /\ boots[b].pc = "import"
  /\ IF ok
       THEN /\ workers' = [workers EXCEPT ![b] = "live"]
            /\ duckdb' = [duckdb EXCEPT !.worker = b]
            /\ boots' = [boots EXCEPT ![b].pc = "instantiate"]
            /\ UNCHANGED dbError
       ELSE /\ BootFails(b, <<"import failed">>)
            /\ UNCHANGED <<workers, duckdb>>
  /\ UNCHANGED <<transferVars, toHost, failures, brokerVars, localSettings, initialMessage,
                 stopping, timers, clock,
                 focusId, advances>>

\* db.instantiate settled: db.connect is called
InstantiateReturns(b, ok) ==
  /\ boots[b].pc = "instantiate"
  /\ Settles(b)
  /\ IF ok
       THEN /\ boots' = [boots EXCEPT ![b].pc = "connect"]
            /\ UNCHANGED dbError
       ELSE BootFails(b, <<"instantiate failed">>)
  /\ UNCHANGED <<transferVars, toHost, failures, brokerVars, localSettings, initialMessage,
                 duckdb, workers, stopping, timers, clock,
                 focusId, advances>>

\* db.connect settled: the globals are set and db.registerFileBuffer is called
ConnectReturns(b, ok) ==
  /\ boots[b].pc = "connect"
  /\ Settles(b)
  /\ IF ok
       THEN /\ duckdb' = [duckdb EXCEPT !.conn = b, !.instance = b]
            /\ boots' = [boots EXCEPT ![b].pc = "registerFileBuffer"]
            /\ UNCHANGED dbError
       ELSE /\ BootFails(b, <<"connect failed">>)
            /\ UNCHANGED duckdb
  /\ UNCHANGED <<transferVars, toHost, failures, brokerVars, localSettings, initialMessage,
                 workers, stopping, timers, clock,
                 focusId, advances>>

\* mutant of RegisterFileBufferReturns: the canonical cells are put after the cells
\* the notebook holds (setCells(prev => [...prev, ...initialCells]))
RegisterFileBufferReturnsKeeps(b, ok) ==
  /\ boots[b].pc = "registerFileBuffer"
  /\ Settles(b)
  /\ IF ok
       THEN LET now == clock
                cs == initialCells(boots[b].message, boots[b].currentSettings, now)
            IN /\ clock' = now
               /\ cells' = cells \o updateCell(cs, now, [status |-> "running"])
               /\ focusId' = cs[Len(cs)].id
               /\ dbReady' = TRUE
               /\ boots' = [boots EXCEPT ![b].pc = "setup", ![b].initialCells = cs,
                                         ![b].i = 1]
               /\ UNCHANGED dbError
       ELSE /\ BootFails(b, <<"registerFileBuffer failed">>)
            /\ UNCHANGED <<cells, dbReady, clock, focusId>>
  /\ UNCHANGED <<transferVars, toHost, failures, runs, pendingRequests, settings, saves,
                 toWebview, handlers, allowExternalFileAccess, localSettings,
                 initialMessage, duckdb, workers, stopping, timers, advances>>

\* db.registerFileBuffer settled: the canonical cells are installed, the session is
\* ready, the setup cell is Running and conn.query(setupQuery) is called
RegisterFileBufferReturns(b, ok) ==
  /\ boots[b].pc = "registerFileBuffer"
  /\ Settles(b)
  /\ IF ok
       THEN LET now == clock
                cs == initialCells(boots[b].message, boots[b].currentSettings, now)
            IN /\ clock' = now
               /\ cells' = updateCell(cs, now, [status |-> "running"])
               /\ focusId' = cs[Len(cs)].id
               /\ dbReady' = TRUE
               /\ boots' = [boots EXCEPT ![b].pc = "setup", ![b].initialCells = cs,
                                         ![b].i = 1]
               /\ UNCHANGED dbError
       ELSE /\ BootFails(b, <<"registerFileBuffer failed">>)
            /\ UNCHANGED <<cells, dbReady, clock, focusId>>
  /\ UNCHANGED <<transferVars, toHost, failures, runs, pendingRequests, settings, saves,
                 toWebview, handlers, allowExternalFileAccess, localSettings,
                 initialMessage, duckdb, workers, stopping, timers, advances>>

\* the cell of the chain at index i gets its result; the next cell that has a query
\* becomes Running and its conn.query is called, or the chain ends
ChainStep(b, update) ==
  LET cs == boots[b].initialCells
      updated == updateCell(cells, cs[boots[b].i].id, update)
      next == NextInChain(cs, boots[b].i + 1)
  IN IF next # 0
       THEN /\ cells' = updateCell(updated, cs[next].id, [status |-> "running"])
            /\ boots' = [boots EXCEPT ![b].pc = "chain", ![b].i = next]
       ELSE /\ cells' = updated
            /\ boots' = [boots EXCEPT ![b].pc = "done"]

\* mutant of SetupReturns: the chain goes on after a failed setup statement
SetupReturnsGoesOn(b, out) ==
  /\ boots[b].pc = "setup"
  /\ Settles(b)
  /\ IF out = EngineOk
       THEN ChainStep(b, [status |-> "success"])
       ELSE ChainStep(b, ErrorUpdate(out))
  /\ UNCHANGED <<transferVars, toHost, failures, dbReady, runs, pendingRequests, settings,
                 saves, toWebview, handlers, allowExternalFileAccess, dbError,
                 localSettings, initialMessage, duckdb, workers, stopping, timers, clock,
                 focusId, advances>>

\* conn.query(setupQuery) settled
SetupReturns(b, out) ==
  /\ boots[b].pc = "setup"
  /\ Settles(b)
  /\ IF out = EngineOk
       THEN ChainStep(b, [status |-> "success"])
       ELSE /\ cells' = updateCell(cells, boots[b].initialCells[1].id, ErrorUpdate(out))
            /\ boots' = [boots EXCEPT ![b].pc = "done"]
  /\ UNCHANGED <<transferVars, toHost, failures, dbReady, runs, pendingRequests, settings,
                 saves, toWebview, handlers, allowExternalFileAccess, dbError,
                 localSettings, initialMessage, duckdb, workers, stopping, timers, clock,
                 focusId, advances>>

\* conn.query(cell.query) of the loop settled
ChainReturns(b, out) ==
  /\ boots[b].pc = "chain"
  /\ Settles(b)
  /\ IF out = EngineOk
       THEN ChainStep(b, SuccessUpdate(
              EngineResult(boots[b].initialCells[boots[b].i].query)))
       ELSE ChainStep(b, ErrorUpdate(out))
  /\ UNCHANGED <<transferVars, toHost, failures, dbReady, runs, pendingRequests, settings,
                 saves, toWebview, handlers, allowExternalFileAccess, dbError,
                 localSettings, initialMessage, duckdb, workers, stopping, timers, clock,
                 focusId, advances>>

(* --------------------- sandbox: stopCell and the UI --------------------- *)

Cancelled == [status |-> "idle", error |-> <<"Execution cancelled">>]

\* worker.terminate() and the call of db.terminate(), which terminates its worker
Terminate(ws) == [w \in BootIds |-> IF w \in ws THEN "terminated" ELSE workers[w]]

\* mutant of Teardown: the replay is started at once, without the grace delay
TeardownNoDelay ==
  /\ dbReady' = FALSE
  /\ duckdb' = NoDuckdb
  /\ timers' = IF initialMessage # NoMessage THEN Append(timers, clock) ELSE timers

\* stopCell after the try block: setDbReady(false), the globals are cleared and the
\* replay is scheduled
Teardown ==
  /\ dbReady' = FALSE
  /\ duckdb' = NoDuckdb
  /\ timers' = IF initialMessage # NoMessage
                 THEN Append(timers, clock + GraceDelay) ELSE timers

\* bootstraps that were started or are scheduled
Bootstraps ==
  Cardinality({b \in BootIds : boots[b].pc # "free"}) + Len(timers) + stopping

\* mutant of StopCell: the status of the cell is not checked
StopCellAnyStatus(id) ==
  /\ Screen = "notebook"
  /\ IF HasCell(id)
       THEN /\ Bootstraps < MaxBoots
            /\ cells' = updateCell(cells, id, Cancelled)
            /\ workers' = Terminate({duckdb.worker, duckdb.instance} \ {NoWorker})
            /\ IF duckdb.instance # NoWorker
                 THEN /\ stopping' = stopping + 1
                      /\ UNCHANGED <<dbReady, duckdb, timers>>
                 ELSE /\ Teardown
                      /\ UNCHANGED stopping
       ELSE UNCHANGED <<cells, workers, stopping, dbReady, duckdb, timers>>
  /\ UNCHANGED <<transferVars, toHost, failures, runs, pendingRequests, settings, saves,
                 toWebview, handlers, allowExternalFileAccess, dbError, localSettings,
                 initialMessage, boots, clock,
                 focusId, advances>>

\* stopCell up to its await of db.terminate(); it returns at once when the cell is
\* missing or is not running
StopCell(id) ==
  /\ Screen = "notebook"
  /\ IF HasCell(id) /\ FindCell(id).status = "running"
       THEN /\ Bootstraps < MaxBoots
            /\ cells' = updateCell(cells, id, Cancelled)
            /\ workers' = Terminate({duckdb.worker, duckdb.instance} \ {NoWorker})
            /\ IF duckdb.instance # NoWorker
                 THEN /\ stopping' = stopping + 1
                      /\ UNCHANGED <<dbReady, duckdb, timers>>
                 ELSE /\ Teardown
                      /\ UNCHANGED stopping
       ELSE UNCHANGED <<cells, workers, stopping, dbReady, duckdb, timers>>
  /\ UNCHANGED <<transferVars, toHost, failures, runs, pendingRequests, settings, saves,
                 toWebview, handlers, allowExternalFileAccess, dbError, localSettings,
                 initialMessage, boots, clock,
                 focusId, advances>>

\* db.terminate() settled (a rejection is logged and ignored)
TerminateReturns ==
  /\ stopping > 0
  /\ stopping' = stopping - 1
  /\ Teardown
  /\ UNCHANGED <<transferVars, toHost, failures, cells, runs, pendingRequests, settings,
                 saves, toWebview, handlers, allowExternalFileAccess, dbError,
                 localSettings, initialMessage, workers, boots, clock,
                 focusId, advances>>

\* mutant of ReplayTimer: the timer fires and no bootstrap is started
ReplayTimerIdle ==
  /\ timers # <<>>
  /\ clock' = IF clock < Head(timers) THEN Head(timers) ELSE clock
  /\ timers' = Tail(timers)
  /\ UNCHANGED <<transferVars, toHost, failures, brokerVars, dbError, localSettings,
                 initialMessage, duckdb, workers, boots, stopping,
                 focusId, advances>>

\* the setTimeout of stopCell fires: initializeDuckDB(initialMessageRef.current)
ReplayTimer ==
  /\ timers # <<>>
  /\ clock' = IF clock < Head(timers) THEN Head(timers) ELSE clock
  /\ timers' = Tail(timers)
  /\ \E b \in BootIds : initializeDuckDB(b, initialMessage)
  /\ UNCHANGED <<transferVars, toHost, failures, cells, dbReady, runs, pendingRequests,
                 saves, toWebview, handlers, allowExternalFileAccess, dbError,
                 localSettings, duckdb, workers, stopping,
                 focusId, advances>>

(* ------------------------ requestRefresh ------------------------------- *)

\* requestRefresh messages not yet handled and loadData messages not yet received
Refreshes ==
  Cardinality({i \in 1..Len(toHost) : toHost[i].type = "requestRefresh"})
  + Cardinality({i \in 1..Len(toWebview) : toWebview[i].type = "loadData"})

\* the Reload File button of the toolbar: vscode.postMessage({ type: 'requestRefresh' })
RequestRefresh ==
  /\ Screen = "notebook"
  /\ Bootstraps + Refreshes < MaxBoots
  /\ toHost' = Append(toHost, [type |-> "requestRefresh"])
  /\ UNCHANGED <<transferVars, failures, cells, dbReady, runs, pendingRequests, settings,
                 saves, toWebview, handlers, allowExternalFileAccess, sessionVars>>

\* case "requestRefresh": pushDataToWebview reads the document and posts loadData with
\* the persisted permission; a failed read is shown as an error message
HostRequestRefresh(ok) ==
  /\ toHost # <<>>
  /\ Head(toHost).type = "requestRefresh"
  /\ IoOutcome(ok)
  /\ toWebview' = IF ok
       THEN Append(toWebview, Payload(initialMessage.extension, allowExternalFileAccess))
       ELSE toWebview
  /\ toHost' = Tail(toHost)
  /\ UNCHANGED <<transferVars, cells, dbReady, runs, pendingRequests, settings, saves,
                 handlers, allowExternalFileAccess, sessionVars>>

(* ------------------- sandbox: the cells of the notebook ------------------ *)

\* a runCellAndAdvance call: cells is the `cells` of the render its closure was made in
NoAdvance == [pc |-> "none", id |-> NoCell, cells |-> <<>>]

\* cells.findIndex(c => c.id === id), counted from 1; 0 when there is none
findIndex(cs, id) ==
  IF \E k \in 1..Len(cs) : cs[k].id = id
    THEN CHOOSE k \in 1..Len(cs) : cs[k].id = id /\ \A j \in 1..(k - 1) : cs[j].id # id
    ELSE 0

\* the values Date.now() may return after the last one that was read: the same ms,
\* or the next one
Now == {clock} \cup {n \in {clock + 1} : n <= MaxClock}

\* addCell(index): a new empty cell with id `cell-${Date.now()}` is spliced in at the
\* index, or appended when the index is undefined (0 here), and gets the focus
addCell(cs, index, now) ==
  IF index # 0
    THEN SubSeq(cs, 1, index) \o <<Cell(now, "")>> \o SubSeq(cs, index + 1, Len(cs))
    ELSE Append(cs, Cell(now, ""))

\* the separator below the cell at index is clicked: onAdd(index + 1)
AddCell(index, now) ==
  /\ Screen = "notebook"
  /\ Len(cells) < MaxCells
  /\ cells' = addCell(cells, index, now)
  /\ focusId' = now
  /\ clock' = now
  /\ UNCHANGED <<transferVars, toHost, failures, dbReady, runs, pendingRequests, settings,
                 saves, toWebview, handlers, allowExternalFileAccess, dbError,
                 localSettings, initialMessage, duckdb, workers, boots, stopping, timers,
                 advances>>

\* removeCell: setCells(prev => prev.filter(c => c.id !== id))
removeCell(cs, id) == SelectSeq(cs, LAMBDA c : c.id # id)

RemoveCell(id) ==
  /\ Screen = "notebook"
  /\ cells' = removeCell(cells, id)
  /\ UNCHANGED <<transferVars, sessionVars, toHost, failures, dbReady, runs,
                 pendingRequests, settings, saves, toWebview, handlers,
                 allowExternalFileAccess>>

\* the editor of the cell changes: onUpdate({ query: val })
EditCell(id, query) ==
  /\ Screen = "notebook"
  /\ HasCell(id)
  /\ FindCell(id).query # query
  /\ cells' = updateCell(cells, id, [query |-> query])
  /\ UNCHANGED <<transferVars, sessionVars, toHost, failures, dbReady, runs,
                 pendingRequests, settings, saves, toWebview, handlers,
                 allowExternalFileAccess>>

\* runCellAndAdvance after `await runCell(id)`: cs is the cells state and snapshot
\* the `cells` of the closure.  The focus moves to the next cell of the snapshot, or
\* addCell() appends a cell.
Advance(cs, snapshot, id, now) ==
  LET index == findIndex(snapshot, id)
  IN IF index = 0 THEN [cells |-> cs, focusId |-> focusId, clock |-> clock]
     ELSE IF index < Len(snapshot)
       THEN [cells |-> cs, focusId |-> snapshot[index + 1].id, clock |-> clock]
       ELSE [cells |-> addCell(cs, 0, now), focusId |-> now, clock |-> now]

\* runCellAndAdvance up to the first await of runCell; when runCell returns without
\* awaiting (no connection, blank query) the advance follows in the same task
runCellAndAdvance(r, id, now) ==
  /\ runs[r].pc = "free"
  /\ \A o \in RunIds : o < r => runs[o].pc # "free"
  /\ Screen = "notebook"
  /\ HasCell(id)
  /\ dbReady
  /\ IF duckdb.conn # NoWorker /\ trim(FindCell(id).query) # ""
       THEN /\ cells' = updateCell(cells, id, Running)
            /\ runs' = [runs EXCEPT ![r] =
                 [FreeRun EXCEPT !.pc = "query", !.id = id, !.query = FindCell(id).query,
                                 !.conn = duckdb.conn, !.engineCalls = 1]]
            /\ advances' = [advances EXCEPT ![r] =
                 [pc |-> "awaiting", id |-> id, cells |-> cells]]
            /\ UNCHANGED <<focusId, clock>>
       ELSE LET returned ==
                  updateCell(updateCell(cells, id, Running), id,
                             IF duckdb.conn = NoWorker
                               THEN ErrorUpdate(<<"Database not connected">>)
                               ELSE [status |-> "idle"])
                after == Advance(returned, cells, id, now)
            IN /\ Len(after.cells) <= MaxCells
               /\ cells' = after.cells
               /\ focusId' = after.focusId
               /\ clock' = after.clock
               /\ UNCHANGED <<runs, advances>>
  /\ UNCHANGED <<transferVars, toHost, failures, dbReady, pendingRequests, settings,
                 saves, toWebview, handlers, allowExternalFileAccess, dbError,
                 localSettings, initialMessage, duckdb, workers, boots, stopping, timers>>

\* a runCell that runCellAndAdvance awaits has returned
AdvanceDue(r) == advances[r].pc = "awaiting" /\ runs[r].pc = "done"

\* the continuation of runCellAndAdvance, a microtask of the task that ended runCell
AdvanceReturns(r, now) ==
  /\ AdvanceDue(r)
  /\ LET after == Advance(cells, advances[r].cells, advances[r].id, now)
     IN /\ Len(after.cells) <= MaxCells
        /\ cells' = after.cells
        /\ focusId' = after.focusId
        /\ clock' = after.clock
  /\ advances' = [advances EXCEPT ![r].pc = "done"]
  /\ UNCHANGED <<transferVars, toHost, failures, dbReady, runs, pendingRequests, settings,
                 saves, toWebview, handlers, allowExternalFileAccess, dbError,
                 localSettings, initialMessage, duckdb, workers, boots, stopping, timers>>

(* --------------------------- specification ---------------------------- *)

OldFile == File(<<Slice(<<"old", 0>>, 0, 1)>>)

\* the host's files and workspace when the editor is opened; nothing sent yet
TransferInit ==
  /\ exports = [e \in ExportIds |-> IdleExport]
  /\ toHost = <<>>
  /\ sentLog = <<>>
  /\ writeQueue = <<>>
  /\ writing = NoOp
  /\ directs = [d \in DirectIds |-> IdleDirect]
  /\ hostLog = <<>>
  /\ failures = 0

\* the notebook after bootstrap, with the user's queries typed in; no run started yet
BrokerInit ==
  /\ cells = InitialCells
  /\ dbReady = TRUE
  /\ runs = [r \in RunIds |-> FreeRun]
  /\ pendingRequests = [p \in Paths |-> NoRun]
  /\ saves = 0
  /\ toWebview = <<>>
  /\ handlers = <<>>

\* the session after a bootstrap from the payload: one engine worker, no dbError
SessionInit(message) ==
  /\ dbError = NoError
  /\ localSettings = DefaultSettings
  /\ initialMessage = message
  /\ duckdb = [worker |-> 1, instance |-> 1, conn |-> 1]
  /\ workers = [b \in BootIds |-> IF b = 1 THEN "live" ELSE "none"]
  /\ boots = [b \in BootIds |->
       IF b = 1 THEN [FreeBoot EXCEPT !.pc = "done", !.message = message] ELSE FreeBoot]
  /\ stopping = 0
  /\ timers = <<>>
  /\ clock = 1
  /\ focusId = NoCell
  /\ advances = [r \in RunIds |-> NoAdvance]

InitTransfer ==
  /\ TransferInit
  /\ BrokerInit
  /\ SessionInit(Payload(".csv", FALSE))
  /\ workspaceScheme \in {NoWorkspace, "file", "vscode-vfs"}
  /\ \E c \in {NoFile, OldFile} : files = [t \in AllTargets |-> c]
  /\ allowExternalFileAccess = FALSE
  /\ settings = allowExternalFileAccess

InitBroker ==
  /\ TransferInit
  /\ BrokerInit
  /\ \E m \in Payloads : m.extension = ".csv" /\ SessionInit(m)
  /\ workspaceScheme = NoWorkspace
  /\ files = [t \in AllTargets |-> NoFile]
  /\ allowExternalFileAccess \in BOOLEAN
  \* loadData carried config.allowExternalFileAccess into the sandbox settings
  /\ settings = allowExternalFileAccess
  /\ initialMessage.config = allowExternalFileAccess

\* the webview after construction: it posted 'ready' and the host answered with loadData
InitSession ==
  /\ TransferInit
  /\ workspaceScheme = NoWorkspace
  /\ files = [t \in AllTargets |-> NoFile]
  /\ cells = <<>>
  /\ dbReady = FALSE
  /\ runs = [r \in RunIds |-> FreeRun]
  /\ pendingRequests = [p \in Paths |-> NoRun]
  /\ saves = 0
  /\ handlers = <<>>
  /\ settings = FALSE
  /\ \E x \in Extensions : toWebview = <<Payload(x, FALSE)>>
  /\ allowExternalFileAccess = FALSE
  /\ dbError = NoError
  /\ localSettings = DefaultSettings
  /\ initialMessage = NoMessage
  /\ duckdb = NoDuckdb
  /\ workers = [b \in BootIds |-> "none"]
  /\ boots = [b \in BootIds |-> FreeBoot]
  /\ stopping = 0
  /\ timers = <<>>
  /\ clock = 1
  /\ focusId = NoCell
  /\ advances = [r \in RunIds |-> NoAdvance]

\* the sender alone: it never waits for the host
NextSender ==
  \/ \E e \in ExportIds, n \in Names, s \in Sizes : StartTransfer(e, n, s)
  \/ \E e \in ExportIds : TransferTimer(e)

SpecSender == InitTransfer /\ [][NextSender]_vars

WriteQueueNext ==
  \/ HostSaveFile
  \/ StartLinkBegin
  \/ \E ok \in BOOLEAN : StartLinkEnd(ok)
  \/ \E ok \in BOOLEAN : ChunkLinkLocal(ok)
  \/ ChunkLinkRemoteBegin
  \/ \E ok \in BOOLEAN : ChunkLinkRemoteRead(ok)
  \/ \E ok \in BOOLEAN : ChunkLinkRemoteWrite(ok)
  \/ EndLink

\* chunked exports against the host's write queue
NextTransfer ==
  \/ \E e \in ExportIds, n \in Names, s \in HostSizes : StartTransfer(e, n, s)
  \/ \E e \in ExportIds : TransferTimer(e)
  \/ WriteQueueNext

SpecTransfer == InitTransfer /\ [][NextTransfer]_vars

\* the host receives its messages and the links of _fileWriteQueue run to their end
SpecTransferFair == SpecTransfer /\ WF_vars(WriteQueueNext)

\* one chunked export and the direct exports against the host
NextDirect ==
  \/ \E n \in Names, s \in DirectSizes : StartTransfer(1, n, s)
  \/ TransferTimer(1)
  \/ \E d \in DirectIds, s \in DirectSizes : ExportCell(d, s)
  \/ WriteQueueNext
  \/ HostExportData
  \/ \E d \in DirectIds, u \in AllTargets \cup {NoUri} : SaveDialogAnswered(d, u)
  \/ \E d \in DirectIds, ok \in BOOLEAN : DirectWriteEnd(d, ok)

SpecDirect == InitTransfer /\ [][NextDirect]_vars

\* runs, the file access broker and the settings
NextBroker ==
  \/ \E r \in RunIds, id \in CellIds : RunCell(r, id)
  \/ \E r \in RunIds, out \in EngineOutcomes : QueryReturns(r, out)
  \/ HandleMessage
  \/ \E r \in RunIds, ok \in BOOLEAN : RegisterReturns(r, ok)
  \/ \E r \in RunIds, out \in EngineOutcomes : RetryReturns(r, out)
  \/ saveSettings(localSettings)
  \/ HostRequestFileAccess
  \/ \E h \in 1..Len(handlers), sel \in Selections : PromptAnswered(h, sel)
  \/ \E h \in 1..Len(handlers), ok \in BOOLEAN : ConfigUpdated(h, ok)
  \/ \E h \in 1..Len(handlers), ok \in BOOLEAN : FileRead(h, ok)
  \/ HostUpdateConfiguration

SpecBroker == InitBroker /\ [][NextBroker]_vars

\* a step of the host's handler h of "requestFileAccess"
HandlerStep(h) ==
  /\ h \in 1..Len(handlers)
  /\ \/ \E sel \in Selections : PromptAnswered(h, sel)
     \/ \E ok \in BOOLEAN : ConfigUpdated(h, ok)
     \/ \E ok \in BOOLEAN : FileRead(h, ok)

\* the awaits of the host's handlers settle: the prompt is answered or dismissed, and
\* config.update and readFile resolve or reject
SpecBrokerFair == SpecBroker /\ \A h \in RunIds : WF_vars(HandlerStep(h))

\* an engine call of run r settles: conn.query, db.registerFileBuffer or the retry
EngineStep(r) ==
  \/ \E out \in EngineOutcomes : QueryReturns(r, out)
  \/ \E ok \in BOOLEAN : RegisterReturns(r, ok)
  \/ \E out \in EngineOutcomes : RetryReturns(r, out)

\* every engine call completes, every message posted is delivered and the host answers
\* every requestFileAccess it receives
SpecRunsFair ==
  /\ SpecBrokerFair
  /\ \A r \in RunIds : WF_vars(EngineStep(r))
  /\ WF_vars(HostRequestFileAccess \/ HostUpdateConfiguration)
  /\ WF_vars(HandleMessage)

SessionOutcomes == {EngineOk, EngineOther}

\* ids of the cells in the list
IdsOf(cs) == {cs[k].id : k \in 1..Len(cs)}

\* the bootstrap: loadData and the steps of initializeDuckDB
BootNext ==
  \/ HandleLoadData
  \/ \E b \in BootIds, ok \in BOOLEAN : ImportReturns(b, ok)
  \/ \E b \in BootIds, ok \in BOOLEAN : InstantiateReturns(b, ok)
  \/ \E b \in BootIds, ok \in BOOLEAN : ConnectReturns(b, ok)
  \/ \E b \in BootIds, ok \in BOOLEAN : RegisterFileBufferReturns(b, ok)
  \/ \E b \in BootIds, out \in SessionOutcomes : SetupReturns(b, out)
  \/ \E b \in BootIds, out \in SessionOutcomes : ChainReturns(b, out)

\* stop and the replay it schedules
StopNext ==
  \/ \E id \in IdsOf(cells) : StopCell(id)
  \/ TerminateReturns
  \/ ReplayTimer

\* the session lifecycle: bootstrap, runs, stop and its replay
NextSession ==
  \/ BootNext
  \/ \E r \in RunIds, id \in IdsOf(cells) : RunCell(r, id)
  \/ \E r \in RunIds, out \in SessionOutcomes : QueryReturns(r, out)
  \/ \E r \in RunIds, ok \in BOOLEAN : ExportStep(r, ok)
  \/ StopNext

SpecSession == InitSession /\ [][NextSession]_vars

\* the steps of bootstrap b when the import, the engine instantiation, the connection,
\* the registration of the file and the canonical statements succeed
BootSucceeds(b) ==
  \/ ImportReturns(b, TRUE)
  \/ InstantiateReturns(b, TRUE)
  \/ ConnectReturns(b, TRUE)
  \/ RegisterFileBufferReturns(b, TRUE)
  \/ SetupReturns(b, EngineOk)
  \/ ChainReturns(b, EngineOk)

\* the session lifecycle when every bootstrap succeeds; the runs may fail
NextReplay ==
  \/ HandleLoadData
  \/ \E b \in BootIds : BootSucceeds(b)
  \/ \E r \in RunIds, id \in IdsOf(cells) : RunCell(r, id)
  \/ \E r \in RunIds, out \in SessionOutcomes : QueryReturns(r, out)
  \/ \E r \in RunIds, ok \in BOOLEAN : ExportStep(r, ok)
  \/ StopNext

\* the engine calls of a bootstrap settle, db.terminate() settles and the timer fires
SpecReplay ==
  /\ InitSession
  /\ [][NextReplay]_vars
  /\ \A b \in BootIds : WF_vars(BootSucceeds(b))
  /\ WF_vars(HandleLoadData)
  /\ WF_vars(TerminateReturns)
  /\ WF_vars(ReplayTimer)

\* bootstrap, settings, stop and replay
NextSettings ==
  \/ BootNext
  \/ \E n \in LocalSettings : saveSettings(n)
  \/ StopNext

SpecSettings == InitSession /\ [][NextSettings]_vars

\* bootstrap, runs and direct exports
NextExport ==
  \/ BootNext
  \/ \E r \in RunIds, id \in IdsOf(cells) : RunCell(r, id)
  \/ \E r \in RunIds, out \in SessionOutcomes : QueryReturns(r, out)
  \/ \E r \in RunIds, ok \in BOOLEAN : ExportStep(r, ok)
  \/ \E d \in DirectIds, id \in IdsOf(cells) : exportCell(d, id)
  \/ \E d \in DirectIds : ExportCellThrows(d)
  \/ \E d \in DirectIds, size \in DirectSizes : ExportCellPosts(d, size)

SpecExport == InitSession /\ [][NextExport]_vars

\* the queries the user types into a cell of the session
EditQueries == {"", "SELECT"}

\* the cell has the query a bootstrap gave it
Canonical(c) ==
  \E b \in BootIds : \E k \in 1..Len(boots[b].initialCells) :
     boots[b].initialCells[k].id = c.id /\ boots[b].initialCells[k].query = c.query

Edits == Cardinality({k \in 1..Len(cells) : ~Canonical(cells[k])})

\* the session lifecycle with the user editing the queries
NextNotebook ==
  \/ HandleLoadData
  \/ \E b \in BootIds : BootSucceeds(b)
  \/ \E r \in RunIds, id \in IdsOf(cells) \cup {NoCell} : RunCell(r, id)
  \/ \E r \in RunIds, out \in SessionOutcomes : QueryReturns(r, out)
  \/ \E id \in IdsOf(cells), q \in EditQueries :
        /\ Edits < MaxEdits \/ ~Canonical(FindCell(id))
        /\ EditCell(id, q)
  \/ \E id \in IdsOf(cells) \cup {NoCell} : StopCell(id)
  \/ TerminateReturns
  \/ ReplayTimer

\* the webview after construction, opened on a csv file
InitNotebook == InitSession /\ Head(toWebview).extension = ".csv"

SpecNotebook == InitNotebook /\ [][NextNotebook]_vars

\* no other task starts while a continuation of runCellAndAdvance is due
NoAdvanceDue == \A r \in RunIds : ~AdvanceDue(r)

\* the notebook some ms after a bootstrap at time 1: the canonical cells have their
\* results and the empty cell has the focus
InitAdvance ==
  /\ TransferInit
  /\ workspaceScheme = NoWorkspace
  /\ files = [t \in AllTargets |-> NoFile]
  /\ LET message == Payload(".csv", FALSE)
         cs == initialCells(message, DefaultSettings, 1)
     IN /\ initialMessage = message
        /\ boots = [b \in BootIds |->
             IF b = 1 THEN [FreeBoot EXCEPT !.pc = "done", !.message = message,
                                            !.initialCells = cs, !.i = 3]
             ELSE FreeBoot]
        /\ cells = [k \in 1..Len(cs) |->
             IF cs[k].query = "" THEN cs[k]
             ELSE IF k = 1 THEN Spread(cs[k], [status |-> "success"])
             ELSE Spread(cs[k], SuccessUpdate(EngineResult(cs[k].query)))]
        /\ focusId = cs[Len(cs)].id
  /\ dbReady = TRUE
  /\ runs = [r \in RunIds |-> FreeRun]
  /\ pendingRequests = [p \in Paths |-> NoRun]
  /\ saves = 0
  /\ toWebview = <<>>
  /\ handlers = <<>>
  /\ settings = FALSE
  /\ allowExternalFileAccess = FALSE
  /\ dbError = NoError
  /\ localSettings = DefaultSettings
  /\ duckdb = [worker |-> 1, instance |-> 1, conn |-> 1]
  /\ workers = [b \in BootIds |-> IF b = 1 THEN "live" ELSE "none"]
  /\ stopping = 0
  /\ timers = <<>>
  /\ clock = MaxClock - 1
  /\ advances = [r \in RunIds |-> NoAdvance]

\* the ids the user does not remove: those of the added cells and, once MaxRemovals
\* cells of the bootstrap are gone, all
Kept ==
  LET canonical == UNION {IdsOf(boots[b].initialCells) : b \in BootIds}
  IN IF Cardinality(canonical \ IdsOf(cells)) < MaxRemovals
       THEN IdsOf(cells) \ canonical ELSE IdsOf(cells)

\* run-and-advance and the cells the user adds and removes; the user adds a cell
\* while a run-and-advance can still append one
NextAdvance ==
  \/ \E r \in RunIds, now \in Now : AdvanceReturns(r, now)
  \/ NoAdvanceDue /\ \E r \in RunIds, id \in IdsOf(cells), now \in Now :
                       runCellAndAdvance(r, id, now)
  \/ NoAdvanceDue /\ \E r \in RunIds, out \in SessionOutcomes : QueryReturns(r, out)
  \/ NoAdvanceDue /\ \E r \in RunIds, ok \in BOOLEAN : ExportStep(r, ok)
  \/ NoAdvanceDue /\ \E k \in 1..Len(cells), now \in Now :
                       Len(cells) < MaxCells - 1 /\ AddCell(k, now)
  \/ NoAdvanceDue /\ \E id \in IdsOf(cells) \ Kept : RemoveCell(id)

SpecAdvance == InitAdvance /\ [][NextAdvance]_vars

\* the bootstrap against Reload File and stop
NextRefresh ==
  \/ BootNext
  \/ RequestRefresh
  \/ \E ok \in BOOLEAN : HostRequestRefresh(ok)
  \/ StopNext

SpecRefresh == InitSession /\ [][NextRefresh]_vars

\* bootstraps that succeed, started by the first load, Reload File or stop, over a
\* notebook to which the user appends cells (in the ms of the event before, or some
\* ms later), types a query into them and runs them
NextInstall ==
  \/ HandleLoadData
  \/ \E b \in BootIds : BootSucceeds(b)
  \/ RequestRefresh
  \/ \E ok \in BOOLEAN : HostRequestRefresh(ok)
  \/ StopNext
  \/ \E now \in {clock, clock + 4} : AddCell(Len(cells), now)
  \/ \E id \in IdsOf(cells) : ~Canonical(FindCell(id)) /\ EditCell(id, "SELECT")
  \/ \E r \in RunIds, id \in IdsOf(cells) : ~Canonical(FindCell(id)) /\ RunCell(r, id)
  \/ \E r \in RunIds, out \in SessionOutcomes : QueryReturns(r, out)

SpecInstall == InitNotebook /\ [][NextInstall]_vars

\* runs that ask the host for a file, against stop and the replay it schedules
NextCancel ==
  \/ \E r \in RunIds, id \in IdsOf(cells) : RunCell(r, id)
  \/ \E r \in RunIds, out \in EngineOutcomes : QueryReturns(r, out)
  \/ HandleMessage
  \/ \E r \in RunIds, ok \in BOOLEAN : RegisterReturns(r, ok)
  \/ \E r \in RunIds, out \in EngineOutcomes : RetryReturns(r, out)
  \/ HostRequestFileAccess
  \/ \E h \in 1..Len(handlers), sel \in Selections : PromptAnswered(h, sel)
  \/ \E h \in 1..Len(handlers), ok \in BOOLEAN : ConfigUpdated(h, ok)
  \/ \E h \in 1..Len(handlers), ok \in BOOLEAN : FileRead(h, ok)
  \/ \E id \in IdsOf(cells) : StopCell(id)
  \/ TerminateReturns
  \/ ReplayTimer
  \/ \E b \in BootIds : BootSucceeds(b)

SpecCancel == InitBroker /\ [][NextCancel]_vars

(* ================= claims: bulk transfer and write queue =============== *)

SrcOf(e) == <<"export", e>>

IsPrefix(a, b) == Len(a) <= Len(b) /\ \A i \in 1..Len(a) : a[i] = b[i]

\* the saveFile* messages export e posted, in the order it posted them
SentOps(e) ==
  LET mine(m) == m.src = SrcOf(e)
  IN SelectSeq(sentLog, mine)

\* the links of export e the host executed, in the order it executed them
HostOps(e) ==
  LET mine(x) == x.op.src = SrcOf(e)
      done == SelectSeq(hostLog, mine)
  IN [i \in 1..Len(done) |-> done[i].op]

\* export e's saveFileStart was executed before position j of hostLog, its saveFileEnd was not
OpenBefore(e, j) ==
  /\ \E i \in 1..(j - 1) :
       hostLog[i].op.src = SrcOf(e) /\ hostLog[i].op.type = "saveFileStart"
  /\ \A i \in 1..(j - 1) :
       ~(hostLog[i].op.src = SrcOf(e) /\ hostLog[i].op.type = "saveFileEnd")

\* C2: the host never executes a start or a chunk write of one export to a name
\* between the start and the end of another export to that same name.
C2_NoInterleavedExports ==
  \A j \in 1..Len(hostLog) :
    hostLog[j].op.type \in {"saveFileStart", "saveFileChunk"} =>
      \A e \in ExportIds :
        (SrcOf(e) # hostLog[j].op.src /\ exports[e].name = hostLog[j].op.name)
          => ~OpenBefore(e, j)

\* the file mutations in progress: the write of the executing queue link and the
\* writes of the exportData handlers
MutationsInProgress ==
  (IF writing.phase = "writeFile" THEN 1 ELSE 0)
    + Cardinality({d \in DirectIds : directs[d].pc = "writeFile"})

\* C3: every host-side file mutation runs as a link of the single write queue, so
\* no two file mutations are ever in progress at the same time.
C3_OneMutationAtATime == MutationsInProgress <= 1

\* C4: for one export the host executes the start first, then the chunk writes in
\* the order they were sent, and the end notification after all of them.
C4_QueueOrder ==
  \A e \in ExportIds :
    LET h == HostOps(e)
    IN /\ IsPrefix(h, SentOps(e))
       /\ \A i \in 1..Len(h) :
            /\ h[i].type = "saveFileStart" <=> i = 1
            /\ h[i].type = "saveFileEnd" => i = exports[e].chunks + 2
            /\ h[i].type = "saveFileChunk" => h[i].lo = (i - 2) * CHUNK_SIZE

\* a two-chunk export fully executed by the host, with a link of the other export
\* executed in between
C4_Witness ==
  \E e \in ExportIds :
    /\ exports[e].chunks = 2
    /\ Len(HostOps(e)) = 4
    /\ \E i, j, k \in 1..Len(hostLog) :
         /\ i < j /\ j < k
         /\ hostLog[i].op.src = SrcOf(e)
         /\ hostLog[j].op.src # SrcOf(e)
         /\ hostLog[k].op.src = SrcOf(e)

\* C5: once the host has processed the start, all chunks and the end of an export
\* (none of them failing), the destination file has length S and holds the buffer.
C5_FileEqualsBuffer ==
  \A e \in ExportIds :
    ( /\ hostLog # <<>>
      /\ hostLog[Len(hostLog)].op = Msg("saveFileEnd", exports[e].name, SrcOf(e), 0, 0)
      /\ \A i \in 1..Len(hostLog) : hostLog[i].op.src = SrcOf(e) => hostLog[i].ok )
    => LET f == files[resolveTargetUri(exports[e].name)]
       IN /\ f = File(WholeBuffer(SrcOf(e), exports[e].size))
          /\ ByteLength(f.bytes) = exports[e].size

\* C6: for a buffer of size S the sender emits one saveFileStart, ceil(S / 1 MiB)
\* saveFileChunk messages of at most 1 MiB carrying consecutive slices in order, and
\* one saveFileEnd; a 3 MiB buffer gives 3 chunks of 1 MiB each.
C6_SenderShape ==
  \A e \in ExportIds :
    exports[e].pc = "done" =>
      LET m == SentOps(e)
          n == Len(m) - 2
          S == exports[e].size
      IN /\ n >= 0
         /\ n * CHUNK_SIZE >= S /\ (n - 1) * CHUNK_SIZE < S
         /\ m[1] = Msg("saveFileStart", exports[e].name, SrcOf(e), 0, 0)
         /\ m[n + 2] = Msg("saveFileEnd", exports[e].name, SrcOf(e), 0, 0)
         /\ \A i \in 2..(n + 1) :
              /\ m[i].type = "saveFileChunk"
              /\ m[i].name = exports[e].name
              /\ m[i].lo = (IF i = 2 THEN 0 ELSE m[i - 1].hi)
              /\ m[i].lo < m[i].hi
              /\ m[i].hi - m[i].lo <= CHUNK_SIZE
              /\ i = n + 1 => m[i].hi = S
         /\ S = 3 * CHUNK_SIZE =>
              /\ n = 3
              /\ \A i \in 2..4 : m[i].hi - m[i].lo = CHUNK_SIZE

\* a finished transfer of a 3 MiB buffer
C6_Witness ==
  \E e \in ExportIds : exports[e].pc = "done" /\ exports[e].size = 3 * CHUNK_SIZE

(* ================== claims: file access broker and runs ================ *)

HandlerIds == 1..Len(handlers)

\* the requestFileAccess messages run r has posted so far
RequestsOf(r) ==
  Cardinality({k \in 1..Len(toHost) :
                 toHost[k].type = "requestFileAccess" /\ toHost[k].run = r})
    + Cardinality({h \in HandlerIds : handlers[h].run = r})

\* C1: the host sends fileAccessGranted only if the setting was true when the request
\* was handled or the user answered that request's prompt with Allow or Allow and
\* Remember; a Deny answer or a dismissed prompt never produces it.
C1_GrantOnlyIfPermitted ==
  /\ \A h \in HandlerIds :
       handlers[h].reply = "fileAccessGranted" =>
         \/ handlers[h].allowExternal
         \/ handlers[h].selection \in {"Allow", "Allow and Remember"}
  /\ \A k \in 1..Len(toWebview) :
       toWebview[k].type = "fileAccessGranted" =>
         /\ handlers[toWebview[k].handler].reply = "fileAccessGranted"
         /\ handlers[toWebview[k].handler].filePath = toWebview[k].filePath

\* one request granted on Allow while the setting was false, another denied by Deny
C1_Witness ==
  \E g, d \in HandlerIds :
    /\ handlers[g].reply = "fileAccessGranted"
    /\ ~handlers[g].allowExternal
    /\ handlers[g].selection = "Allow"
    /\ handlers[d].selection = "Deny"
    /\ handlers[d].reply = "fileAccessDenied"

\* C7: within one run the scheduler sends at most one requestFileAccess and calls the
\* engine at most twice; a failed retry ends the run with the cell in Error, without
\* a further request or retry.
C7_OneRequestOneRetry ==
  /\ [](\A r \in RunIds : RequestsOf(r) <= 1 /\ runs[r].engineCalls <= 2)
  /\ [][\A r \in RunIds :
          (runs[r].pc = "retry" /\ runs'[r].pc # "retry" /\ runs'[r].result # "success")
            => /\ runs'[r].pc = "done"
               /\ runs'[r].result = "error"
               /\ HasCell(runs[r].id) => FindCell(runs[r].id).status' = "error"
               /\ toHost' = toHost
               /\ pendingRequests' = pendingRequests]_vars
  /\ [][\A r \in RunIds : runs[r].pc = "done" => runs'[r] = runs[r]]_vars

\* a run whose retry failed with another missing-file error
C7_Witness ==
  \E r \in RunIds, p \in Paths :
    /\ runs[r].pc = "done"
    /\ runs[r].engineCalls = 2
    /\ RequestsOf(r) = 1
    /\ runs[r].error = AccessDenied(EngineMissing(p))
    /\ p # runs[r].filePath

\* C8: if the user answers the access prompt with Deny, the run that caused the
\* request ends with its cell in Error with a message that reflects the denial, and
\* the query is not executed a second time.
C8_DenyEndsRunInError ==
  \A h \in HandlerIds :
    (handlers[h].selection = "Deny" /\ handlers[h].delivered) =>
      LET r == handlers[h].run
      IN /\ runs[r].pc = "done"
         /\ runs[r].result = "error"
         /\ runs[r].error = AccessDenied(<<"User denied access">>)
         /\ runs[r].engineCalls = 1

\* handler h chose Allow and Remember and the setting was persisted
Remembered(h) ==
  /\ handlers[h].selection = "Allow and Remember"
  /\ handlers[h].pc \in {"readFile", "done"}
  /\ handlers[h].error # <<"Unable to write settings">>

\* C9: after the user has chosen Allow and Remember for one request, a later request
\* for a different path is granted without any prompt (denied only if the file
\* cannot be read).
C9_RememberedGrantsWithoutPrompt ==
  \A h2 \in HandlerIds :
    \A h1 \in handlers[h2].doneBefore :
      (Remembered(h1) /\ handlers[h1].filePath # handlers[h2].filePath) =>
        /\ handlers[h2].allowExternal
        /\ handlers[h2].selection = "none"
        /\ handlers[h2].reply = "fileAccessDenied" => handlers[h2].error = <<"ENOENT">>

\* C10: the broker changes the persisted setting only on an Allow and Remember
\* decision; a request answered with Allow or Deny, or granted because the setting
\* was already true, leaves it unchanged, so a request handled while the setting is
\* false prompts.
C10_OnlyRememberPersists ==
  /\ [][allowExternalFileAccess' # allowExternalFileAccess =>
          \/ /\ toHost # <<>>
             /\ Head(toHost).type = "updateConfiguration"
             /\ toHost' = Tail(toHost)
          \/ /\ allowExternalFileAccess'
             /\ \E h \in HandlerIds :
                  /\ handlers[h].pc = "update"
                  /\ handlers[h].selection = "Allow and Remember"
                  /\ handlers'[h].pc = "readFile"]_vars
  /\ [](\A h \in HandlerIds :
          ~handlers[h].allowExternal =>
            handlers[h].pc = "prompt" \/ handlers[h].selection # "none")

\* a request granted on a plain Allow, and a request received after it at its prompt
C10_Witness ==
  \E h1, h2 \in HandlerIds :
    /\ h1 \in handlers[h2].doneBefore
    /\ handlers[h1].selection = "Allow"
    /\ handlers[h1].reply = "fileAccessGranted"
    /\ handlers[h2].pc = "prompt"
    /\ ~allowExternalFileAccess

(* ====================== claims: session lifecycle ======================= *)

\* the indices of the cells whose record changes in this step
Changed == {k \in 1..Len(cells) : k > Len(cells') \/ cells'[k] # cells[k]}

\* a step of stopCell up to its await: it is the only step that terminates a worker
StopStep == \E w \in BootIds : workers[w] = "live" /\ workers'[w] = "terminated"

\* the continuation of stopCell after db.terminate()
TeardownStep == stopping' < stopping

\* the grace timer of stopCell fires
ReplayStep == Len(timers') < Len(timers)

\* the bootstraps that start in this step
Started == {b \in BootIds : boots[b].pc = "free" /\ boots'[b].pc # "free"}

\* C11: stop on a Running cell sets that cell, and no other, to Idle with the error
\* 'Execution cancelled' and terminates the engine worker; its continuation marks the
\* session not-ready, clears the connection and schedules one replay after the grace
\* delay; when the timer fires exactly one bootstrap starts, from the payload that was
\* loaded, not before the delay has passed; and no bootstrap starts in any other way
\* than by loadData or by that timer.
C11_StopTearsDownAndReplaysOnce ==
  [][/\ StopStep =>
          /\ Len(cells') = Len(cells)
          /\ Cardinality(Changed) = 1
          /\ \A k \in Changed :
               /\ cells[k].status = "running"
               /\ cells'[k] = [cells[k] EXCEPT !.status = "idle",
                                                !.error = <<"Execution cancelled">>]
          /\ workers'[duckdb.worker] = "terminated"
          /\ stopping' = stopping + 1
          /\ UNCHANGED <<timers, boots>>
     /\ TeardownStep =>
          /\ stopping' = stopping - 1
          /\ ~dbReady'
          /\ duckdb' = NoDuckdb
          /\ timers' = Append(timers, clock + GraceDelay)
          /\ UNCHANGED <<cells, boots>>
     /\ ReplayStep =>
          /\ timers' = Tail(timers)
          /\ clock' >= Head(timers)
          /\ Cardinality(Started) = 1
          /\ \A b \in Started : boots'[b].message = boots[1].message
          /\ \A b \in BootIds \ Started : boots'[b] = boots[b]
     /\ Started # {} => ReplayStep \/ (toWebview # <<>> /\ toWebview' = Tail(toWebview))
    ]_vars

\* C11 witness: a Running cell was stopped, the session was torn down and the replay
\* has started
C11_Witness ==
  /\ boots[2].pc = "import"
  /\ workers[1] = "terminated"
  /\ ~dbReady
  /\ \E k \in 1..Len(cells) : cells[k].error = <<"Execution cancelled">>

\* a stopCell call was made and has not yet torn the session down
Stopped == stopping > 0

\* the canonical cell at position k of the list exists, has a query and is Success
\* while the session is ready
CanonicalSuccess(k) ==
  /\ dbReady
  /\ k <= Len(cells)
  /\ cells[k].query # ""
  /\ cells[k].status = "success"

\* C12: after stop on a Running cell, when the engine instantiation and the canonical
\* statements succeed, the session eventually is ready again and the setup, describe
\* and preview cells (the first three of the list, with the default settings)
\* eventually are Success.
C12_ReplayRestoresSession ==
  /\ Stopped ~> dbReady
  /\ \A k \in 1..3 : Stopped ~> CanonicalSuccess(k)

\* C12 witness: after a stop the replay has run and the preview cell of the replayed
\* list is Success while the first worker is terminated
C12_Witness ==
  /\ workers[1] = "terminated"
  /\ boots[2].pc = "done"
  /\ CanonicalSuccess(3)

\* the cell of run r, when it is in the list
CellOf(cs, r) == {k \in 1..Len(cs) : cs[k].id = runs[r].id}

\* C13: when the engine query of a statement that matches the COPY pattern succeeds
\* the cell is set to Success, and no later step of the export (reading the file back,
\* sending the chunks, dropping the file), failing or not, changes any cell or the
\* session error: the run keeps its result Success.
C13_ExportFailureKeepsSuccess ==
  [][\A r \in RunIds :
       /\ (runs[r].pc = "query" /\ runs'[r].pc \in ExportStages) =>
            /\ copyMatch(runs[r].query) # NoName
            /\ \A k \in CellOf(cells', r) : cells'[k].status = "success"
       /\ (runs[r].pc \in ExportStages /\ runs'[r] # runs[r]) =>
            /\ cells' = cells
            /\ dbError' = dbError
            /\ runs'[r].result = "success"
    ]_vars

\* C13 witness: the export of a run failed and the run's cell is Success
C13_Witness ==
  \E r \in RunIds :
    /\ runs[r].pc = "done"
    /\ runs[r].export = "failed"
    /\ CellOf(cells, r) # {}
    /\ \A k \in CellOf(cells, r) : cells[k].status = "success"

\* a run fails in this step
RunFails(r) == runs[r].result # "error" /\ runs'[r].result = "error"

\* a direct export fails in this step
DirectFails(d) == directs[d].pc # "failed" /\ directs'[d].pc = "failed"

\* C14: a failing run changes only the status and error of its own cell, and a failing
\* run or direct export leaves the other cells, dbReady and dbError unchanged.
C14_LocalFailureStaysLocal ==
  [][/\ \A r \in RunIds : RunFails(r) =>
          /\ Len(cells') = Len(cells)
          /\ \A k \in Changed :
               /\ cells[k].id = runs[r].id
               /\ cells'[k] = [cells[k] EXCEPT !.status = cells'[k].status,
                                                !.error = cells'[k].error]
          /\ UNCHANGED <<dbReady, dbError>>
     /\ \A d \in DirectIds : DirectFails(d) =>
          /\ Len(cells') = Len(cells)
          /\ \A k \in Changed : cells[k].status = "success"
          /\ UNCHANGED <<dbReady, dbError>>
    ]_vars

\* the awaits of initializeDuckDB before the cells are installed
BootStages == {"import", "instantiate", "connect", "registerFileBuffer"}

\* bootstrap b fails in this step
BootFailure(b) == boots[b].pc \in BootStages /\ boots'[b].pc = "failed"

\* C15: when the import, the engine instantiation, the connection or the registration
\* of the loaded file fails during a bootstrap, the session error is set, so that the
\* error screen is rendered, and the step neither starts nor schedules a bootstrap;
\* the session error is never cleared afterwards.
C15_BootstrapFailureIsFatal ==
  [][/\ \A b \in BootIds : BootFailure(b) =>
          /\ dbError' # NoError
          /\ Started = {}
          /\ UNCHANGED <<timers, stopping, toWebview, cells, dbReady>>
     /\ dbError # NoError => dbError' # NoError
     /\ Screen = "error" => \A id \in IdsOf(cells) : ~ENABLED StopCell(id)
    ]_vars

\* C15 witness: the first bootstrap failed after its worker was created, at
\* db.instantiate or db.connect, and the error screen is shown
C15_Witness ==
  /\ boots[1].pc = "failed"
  /\ workers[1] = "live"
  /\ duckdb.conn = NoWorker
  /\ Screen = "error"
  /\ timers = <<>>

\* the bootstraps that installed their cells
Installed == {b \in BootIds : boots[b].initialCells # <<>>}

\* the query texts of the cells bootstrap b installed, in order
Texts(b) == [k \in 1..Len(boots[b].initialCells) |-> boots[b].initialCells[k].query]

\* C16 as stated: two bootstraps from the same load payload install cells with the same
\* query texts, in the same order.
C16_SamePayloadSameCells ==
  \A a \in Installed, b \in Installed :
    boots[a].message = boots[b].message => Texts(a) = Texts(b)

\* C16 amended: two bootstraps from the same load payload and with the same
\* showDescribe and previewLimit settings install cells with the same query texts, in
\* the same order, all Idle.
C16_SamePayloadAndSettingsSameCells ==
  \A a \in Installed, b \in Installed :
    (boots[a].message = boots[b].message
       /\ boots[a].currentSettings = boots[b].currentSettings) =>
      /\ Texts(a) = Texts(b)
      /\ \A k \in 1..Len(boots[a].initialCells) :
           boots[a].initialCells[k].status = "idle"

\* C16 witness: after a stop the replay installed its cells, from the payload and the
\* settings of the first bootstrap
C16_Witness ==
  /\ Installed = {1, 2}
  /\ boots[1].message = boots[2].message
  /\ boots[1].currentSettings = boots[2].currentSettings
  /\ Len(boots[2].initialCells) = 4

(* ================= claims: pending requests of the broker ================ *)

\* run r awaits the promise of requestFileAccess
Awaiting(r) == runs[r].pc = "requestFileAccess"

\* run r issues requestFileAccess in this step
Requests(r) == ~Awaiting(r) /\ Awaiting(r)'

\* the handle of run r is settled in this step
Settled(r) == Awaiting(r) /\ ~Awaiting(r)'

\* run r awaits a handle that the map does not hold any more
Overwritten(r) == Awaiting(r) /\ pendingRequests[runs[r].filePath] # r

\* C17: a request for a path makes the caller's handle the single entry of that path,
\* also when another caller's handle was pending for it; a handle is settled only
\* while it is the entry of its path, and the entry is removed with it; so a caller
\* whose handle was overwritten is never settled.
C17_SecondRequestOverwrites ==
  [][\A r \in RunIds :
       /\ Requests(r) => pendingRequests'[runs'[r].filePath] = r
       /\ Settled(r) =>
            /\ pendingRequests[runs[r].filePath] = r
            /\ pendingRequests'[runs[r].filePath] = NoRun
       /\ Overwritten(r) => Overwritten(r)' /\ runs'[r] = runs[r]
    ]_vars

\* C17 witness: both runs requested the same path; the second was settled and the
\* first still awaits its handle, with no entry left for the path
C17_Witness ==
  /\ Overwritten(1)
  /\ runs[2].filePath = runs[1].filePath
  /\ runs[2].pc \in {"registerFileBuffer", "retry", "done"}
  /\ pendingRequests[runs[1].filePath] = NoRun

(* ======================== claims: cell status =========================== *)

\* the positions of the cells that are Running
RunningCells == {k \in 1..Len(cells) : cells[k].status = "running"}

\* C18: at most one cell of the session is Running at any time.
C18_AtMostOneRunning == Cardinality(RunningCells) <= 1

\* the status changes the cell life cycle allows
Allowed ==
  {<<"idle", "running">>, <<"running", "success">>, <<"running", "error">>,
   <<"success", "running">>, <<"error", "running">>, <<"running", "idle">>}

\* the step keeps the cells in place: none is added, removed or replaced
SameCells ==
  /\ Len(cells') = Len(cells)
  /\ \A k \in 1..Len(cells) : cells'[k].id = cells[k].id

\* runCell sets the cell to running and then, in the same handler, to idle
\* (blank query) or to error (no connection): two allowed changes in one step
RunsThroughRunning(k) ==
  /\ cells'[k].status \in {"idle", "error"}
  /\ \E r \in RunIds : RunCell(r, cells[k].id)

\* C19: the status of a cell changes only along Idle->Running,
\*      Running->Success, Running->Error, Success->Running, Error->Running and
\*      Running->Idle; Success and Error are entered from Running only.
C19_StatusChangesAreAllowed ==
  [][SameCells =>
       \A k \in 1..Len(cells) :
          \/ cells'[k].status = cells[k].status
          \/ <<cells[k].status, cells'[k].status>> \in Allowed
          \/ RunsThroughRunning(k)
    ]_vars

(* ======================== claims: results of a run ====================== *)

\* the engine call of run r, the first or the retry, returns a result in this step
QuerySucceeds(r) == runs[r].result # "success" /\ runs'[r].result = "success"

\* the schema of the result the engine gives for the query of run r
SchemaOf(r) == EngineResult(runs[r].query).fields

\* C20: when the engine call of a run of a non-blank query succeeds with N rows
\*      and column list C, the cell of the run is set to Success with N rows,
\*      columns equal to C and the column types of the same schema.
C20_SuccessCarriesTheResult ==
  [][\A r \in RunIds :
       QuerySucceeds(r) /\ runs[r].id \in {cells[k].id : k \in 1..Len(cells)} =>
         \A k \in 1..Len(cells') :
            cells'[k].id = runs[r].id =>
              /\ trim(runs[r].query) # ""
              /\ cells'[k].status = "success"
              /\ Len(cells'[k].rows) = Len(EngineResult(runs[r].query).rows)
              /\ Len(cells'[k].columns) = Len(SchemaOf(r))
              /\ Len(cells'[k].columnTypes) = Len(SchemaOf(r))
              /\ \A i \in 1..Len(SchemaOf(r)) :
                    /\ cells'[k].columns[i] = SchemaOf(r)[i].name
                    /\ cells'[k].columnTypes[i] = SchemaOf(r)[i].type
    ]_vars

\* the user's run of the describe cell has returned: the cell shows two rows of the
\* columns a and b
C20_Witness ==
  \E r \in RunIds : \E k \in 1..Len(cells) :
     /\ runs[r].result = "success"
     /\ runs[r].query = describeQuery
     /\ cells[k].id = runs[r].id
     /\ cells[k].status = "success"
     /\ Len(cells[k].rows) = 2
     /\ cells[k].columns = <<"a", "b">>
     /\ cells[k].columnTypes = <<"INTEGER", "VARCHAR">>

(* ======================== claims: the notebook ========================== *)

\* the schemas of the results the engine gives in the session
Schemas ==
  {EngineResult(q).fields :
     q \in {setupQuery(m) : m \in Payloads} \cup {describeQuery}
           \cup {previewQuery(l) : l \in PreviewLimits} \cup EditQueries}

\* C21: in every reachable state every cell has columns and columnTypes both
\*      absent, or both set from one result schema and so of equal length.
C21_ColumnsMatchTypes ==
  \A k \in 1..Len(cells) :
     \/ cells[k].columns = Undefined /\ cells[k].columnTypes = Undefined
     \/ /\ cells[k].columns # Undefined
        /\ cells[k].columnTypes # Undefined
        /\ Len(cells[k].columns) = Len(cells[k].columnTypes)
        /\ \E f \in Schemas :
              /\ Len(f) = Len(cells[k].columns)
              /\ \A i \in 1..Len(f) :
                    /\ cells[k].columns[i] = f[i].name
                    /\ cells[k].columnTypes[i] = f[i].type

\* after a stop and its replay a cell that got a result was edited and run again
C21_Witness ==
  /\ \E b \in BootIds : b > 1 /\ boots[b].pc = "done"
  /\ \E k \in 1..Len(cells) :
        /\ cells[k].query \in EditQueries
        /\ cells[k].status = "running"
        /\ cells[k].columns = <<"a", "b">>
        /\ cells[k].columnTypes = <<"INTEGER", "VARCHAR">>

\* the step is a run of the cell, whose query text is blank
BlankRun(id) ==
  /\ HasCell(id)
  /\ trim(FindCell(id).query) = ""
  /\ \E r \in RunIds : RunCell(r, id)

\* C22 as stated: a run of a cell whose query text is blank ends with the cell
\*      Idle and has no other effect: no engine call, no message to the host and
\*      no other field of the cell changed.
C22_BlankRunOnlySetsIdle ==
  [][\A id \in IdsOf(cells) :
       BlankRun(id) =>
         /\ cells' = updateCell(cells, id, [status |-> "idle"])
         /\ runs' = runs
         /\ toHost' = toHost
    ]_vars

\* C22 amended: a run of a cell whose query text is blank, while the engine
\*      connection is set, ends with the cell Idle and its error text cleared, and
\*      has no other effect: no engine call, no message to the host and no other
\*      field of the cell changed.
C22_BlankRunSetsIdleAndClearsError ==
  [][\A id \in IdsOf(cells) :
       BlankRun(id) /\ duckdb.conn # NoWorker =>
         /\ cells' = updateCell(cells, id, [status |-> "idle", error |-> NoError])
         /\ \A r \in RunIds : runs'[r].engineCalls = runs[r].engineCalls
         /\ runs' = runs
         /\ toHost' = toHost
    ]_vars

\* a cell that had a result was blanked and run: it is idle, without an error, and
\* keeps its rows
C22_Witness ==
  \E k \in 1..Len(cells) :
     /\ cells[k].query = ""
     /\ cells[k].status = "idle"
     /\ cells[k].error = NoError
     /\ cells[k].rows # Undefined

\* the ids of the cells in order
IdSeq(cs) == [k \in 1..Len(cs) |-> cs[k].id]

\* the step ends a runCellAndAdvance of the cell: runCell has returned, at once for
\* a blank query, and the statements after it are executed
AdvanceStep(id) ==
  \/ \E r \in RunIds, now \in Now : AdvanceReturns(r, now) /\ advances[r].id = id
  \/ /\ trim(FindCell(id).query) = ""
     /\ \E r \in RunIds, now \in Now : runCellAndAdvance(r, id, now)

\* C23: runAndAdvance runs the cell and then, if the cell is not the last in
\*      order, moves focus to the next cell, and if it is the last, appends
\*      exactly one new empty Idle cell, which receives focus.
C23_AdvanceFocusesNextOrAppends ==
  [][\A id \in IdsOf(cells) :
       /\ Cardinality(IdsOf(cells)) = Len(cells)
       /\ AdvanceStep(id)
       => LET index == findIndex(cells, id)
          IN IF index < Len(cells)
               THEN /\ IdSeq(cells') = IdSeq(cells)
                    /\ focusId' = cells[index + 1].id
               ELSE /\ Len(cells') = Len(cells) + 1
                    /\ SubSeq(IdSeq(cells'), 1, Len(cells)) = IdSeq(cells)
                    /\ cells'[Len(cells')].query = ""
                    /\ cells'[Len(cells')].status = "idle"
                    /\ focusId' = cells'[Len(cells')].id
    ]_vars

(* ======================== claims: errors of a run ======================= *)

\* the engine call of run r throws `out` in this step, and no access request follows:
\* the first call with a message that is not the missing-file one, or the retry
EngineFails(r, out) ==
  /\ out # EngineOk
  /\ \/ MatchMissing(out) = NoPath /\ QueryReturns(r, out)
     \/ RetryReturns(r, out)

\* C24: when the engine's error does not match the missing-file signature, or
\*      when the retry after a grant fails, the cell ends in Error with error
\*      text equal to the engine's message.
C24_ErrorTextIsEngineMessage ==
  [][\A r \in RunIds, out \in EngineOutcomes :
       EngineFails(r, out) =>
         \A k \in 1..Len(cells') :
            cells'[k].id = runs[r].id =>
              cells'[k].status = "error" /\ cells'[k].error = out
    ]_vars

(* ==================== claims: replies of the host ======================= *)

\* the messages the host posted for handler h that the webview has not handled yet
RepliesTo(h) == SelectSeq(toWebview, LAMBDA m : m.handler = h)

\* C25: if reading the requested file fails on the host, in any branch (already
\*      allowed, Allow, Allow and Remember), the host replies fileAccessDenied
\*      for that path with the underlying error text and never fileAccessGranted.
C25_ReadFailureIsDenied ==
  [][\A h \in 1..Len(handlers) :
       /\ FileRead(h, FALSE) =>
            /\ Len(toWebview') = Len(toWebview) + 1
            /\ LET m == toWebview'[Len(toWebview')]
               IN /\ m.type = "fileAccessDenied"
                  /\ m.filePath = handlers[h].filePath
                  /\ m.error = <<"ENOENT">>
                  /\ m.handler = h
       /\ handlers[h].reply = "fileAccessDenied" =>
            /\ handlers'[h].reply = "fileAccessDenied"
            /\ \A i \in 1..Len(RepliesTo(h)') : RepliesTo(h)'[i].type # "fileAccessGranted"
    ]_vars

\* the read failed after Allow and Remember had persisted the setting, and the denial
\* reached the webview
C25_Witness ==
  \E h \in 1..Len(handlers) :
     /\ handlers[h].selection = "Allow and Remember"
     /\ allowExternalFileAccess
     /\ handlers[h].reply = "fileAccessDenied"
     /\ handlers[h].error = <<"ENOENT">>
     /\ handlers[h].delivered

\* the host posts a message for handler h in this step
Posts(h) == Len(RepliesTo(h)') > Len(RepliesTo(h))

ChunkFails ==
  /\ Len(hostLog') = Len(hostLog) + 1
  /\ hostLog'[Len(hostLog')].op.type = "saveFileChunk"
  /\ ~hostLog'[Len(hostLog')].ok

\* a saveFileChunk link has failed
ChunkFailed ==
  \E i \in 1..Len(hostLog) : hostLog[i].op.type = "saveFileChunk" /\ ~hostLog[i].ok

\* C27: a failed saveFileChunk write is swallowed: nothing is sent to the
\*      sandbox, the originating cell's status is unaffected, and the operations
\*      queued after it (later chunks, the end, other exports) are still executed.
C27_FailedChunkIsSwallowed ==
  /\ [][ChunkFails =>
          /\ toWebview' = toWebview
          /\ cells' = cells
          /\ runs' = runs
          /\ exports' = exports
          /\ writing' = NoOp
          /\ writeQueue' = IF writing = NoOp THEN Tail(writeQueue) ELSE writeQueue
       ]_vars
  /\ [](ChunkFailed => <>(Len(hostLog) = Len(sentLog) /\ toHost = <<>>))

\* a chunk write failed and the saveFileEnd sent after it was executed all the same
C27_Witness ==
  \E i, j \in 1..Len(hostLog) :
     /\ i < j
     /\ hostLog[i].op.type = "saveFileChunk"
     /\ ~hostLog[i].ok
     /\ hostLog[j].op.type = "saveFileEnd"
     /\ hostLog[j].op.src = hostLog[i].op.src

(* ==================== claims: stop ===================================== *)

\* the cell with this id is Running
IsRunning(id) == HasCell(id) /\ FindCell(id).status = "running"

\* C28: stop on a cell that is not Running, or that does not exist, changes
\*      nothing: no cell field changes, the engine is not torn down, session
\*      readiness is unchanged and no bootstrap replay is scheduled.
C28_StopOfIdleCellChangesNothing ==
  [][\A id \in IdsOf(cells) \cup {NoCell} :
       (StopCell(id) /\ ~IsRunning(id)) =>
          /\ cells' = cells
          /\ workers' = workers
          /\ duckdb' = duckdb
          /\ dbReady' = dbReady
          /\ timers' = timers
          /\ stopping' = stopping
          /\ boots' = boots
    ]_vars

\* the notebook shows a cell that ran and one that never did while the engine is up:
\* stop may be called on either, and on an id no cell has
C28_Witness ==
  /\ Screen = "notebook"
  /\ dbReady
  /\ duckdb.worker # NoWorker
  /\ \E i, j \in 1..Len(cells) : cells[i].status = "success" /\ cells[j].status = "idle"
  /\ ~HasCell(NoCell)

(* ==================== claims: the bootstrap chain ======================= *)

\* the cells of the list that have this id
CellsWith(cs, id) == {cs[k] : k \in {j \in 1..Len(cs) : cs[j].id = id}}

\* the statements of a list of cells, in the order of the list
Statements(cs) ==
  LET withQuery == SelectSeq(cs, LAMBDA c : c.query # "")
  IN [k \in 1..Len(withQuery) |-> withQuery[k].query]

\* setup, describe (if enabled), preview
CanonicalStatements(message, currentSettings) ==
  <<setupQuery(message)>>
  \o (IF currentSettings.showDescribe THEN <<describeQuery>> ELSE <<>>)
  \o <<previewQuery(currentSettings.previewLimit)>>

\* bootstrap b has installed its cells
InChain(b) == boots[b].pc \in {"setup", "chain", "done"}

\* the setup statement of bootstrap b fails in this step
SetupFails(b) == \E out \in SessionOutcomes \ {EngineOk} : SetupReturns(b, out)

\* C29: bootstrap executes the canonical statements strictly in the order setup,
\*      describe (if enabled), preview, one at a time; if the setup statement
\*      fails its cell becomes Error, no later canonical statement is executed
\*      and their cells stay Idle, while the session remains ready.
C29_BootstrapRunsInOrder ==
  /\ [](\A b \in BootIds :
          /\ InChain(b) =>
               Statements(boots[b].initialCells)
                 = CanonicalStatements(boots[b].message, boots[b].currentSettings)
          /\ boots[b].pc = "setup" => boots[b].i = 1
          /\ boots[b].pc = "chain" =>
               /\ boots[b].i \in 2..Len(boots[b].initialCells)
               /\ boots[b].initialCells[boots[b].i].query # "")
  /\ [][\A b \in BootIds :
          /\ (boots[b].pc \in {"setup", "chain"} /\ boots'[b] # boots[b]) =>
               /\ boots'[b].initialCells = boots[b].initialCells
               /\ \A c \in CellsWith(cells', boots[b].initialCells[boots[b].i].id) :
                     c.status \in {"success", "error"}
               /\ \/ boots'[b].pc = "done"
                  \/ /\ boots'[b].pc = "chain"
                     /\ boots'[b].i > boots[b].i
                     /\ \A j \in (boots[b].i + 1)..(boots'[b].i - 1) :
                          boots[b].initialCells[j].query = ""
               /\ (boots'[b].pc = "done" /\ ~SetupFails(b)) =>
                     \A j \in (boots[b].i + 1)..Len(boots[b].initialCells) :
                        boots[b].initialCells[j].query = ""
          /\ SetupFails(b) =>
               /\ boots'[b].pc = "done"
               /\ \A c \in CellsWith(cells', boots[b].initialCells[1].id) :
                     c.status = "error" /\ c.error \in SessionOutcomes \ {EngineOk}
               /\ \A k \in 2..Len(boots[b].initialCells) :
                     /\ CellsWith(cells', boots[b].initialCells[k].id)
                          = CellsWith(cells, boots[b].initialCells[k].id)
               /\ dbReady' = dbReady
               /\ dbError' = dbError
          /\ boots[b].pc = "done" => boots'[b] = boots[b]
          /\ (boots[b].pc = "registerFileBuffer" /\ boots'[b].pc = "setup") =>
               /\ dbReady'
               /\ Len(cells') = Len(boots'[b].initialCells)
               /\ \A k \in 2..Len(cells') :
                     /\ cells'[k].id = boots'[b].initialCells[k].id
                     /\ cells'[k].status = "idle"
    ]_vars

\* a bootstrap ended on its failed setup statement: the setup cell is Error, the cells
\* of describe and preview are Idle and the notebook is shown
C29_Witness ==
  \E b \in BootIds :
     /\ boots[b].pc = "done"
     /\ Len(cells) = 4
     /\ cells[1].id = boots[b].initialCells[1].id
     /\ cells[1].status = "error"
     /\ cells[2].query = describeQuery /\ cells[2].status = "idle"
     /\ cells[3].status = "idle"
     /\ Screen = "notebook"

\* a bootstrap ran setup, describe and preview to the end
C29_WitnessChain ==
  \E b \in BootIds :
     /\ boots[b].pc = "done"
     /\ Len(cells) = 4
     /\ \A k \in 1..3 : cells[k].status = "success"

(* ==================== claims: appending a chunk ========================= *)

\* the bytes a slice list denotes: empty slices dropped, slices that continue one
\* another in the same buffer joined
RECURSIVE Bytes(_)
Bytes(E) ==
  IF E = <<>> THEN <<>>
  ELSE IF E[1].lo = E[1].hi THEN Bytes(Tail(E))
  ELSE LET rest == Bytes(Tail(E))
       IN IF rest # <<>> /\ rest[1].src = E[1].src /\ rest[1].lo = E[1].hi
            THEN <<Slice(E[1].src, E[1].lo, rest[1].hi)>> \o Tail(rest)
            ELSE <<E[1]>> \o rest

\* the saveFileChunk operation whose write succeeds in this step
ChunkWritten(op) ==
  /\ op.type = "saveFileChunk"
  /\ hostLog' = Append(hostLog, Logged(op, TRUE))

\* the chunk operations that were sent
ChunkOps == {sentLog[i] : i \in {j \in 1..Len(sentLog) : sentLog[j].type = "saveFileChunk"}}

\* C30: for any existing destination contents E and chunk B, the local-filesystem
\*      path (append in place) and the virtual/remote path (read, concatenate,
\*      rewrite) both leave the destination equal to E followed by B.
C30_ChunkIsAppended ==
  [][\A op \in ChunkOps :
       (ChunkWritten(op) /\ files[resolveTargetUri(op.name)].exists) =>
          /\ files'[resolveTargetUri(op.name)].exists
          /\ Bytes(files'[resolveTargetUri(op.name)].bytes)
               = Bytes(files[resolveTargetUri(op.name)].bytes
                         \o <<Slice(op.src, op.lo, op.hi)>>)
          /\ \A t \in AllTargets \ {resolveTargetUri(op.name)} : files'[t] = files[t]
    ]_vars

\* a successful chunk write to the target: its bytes end the file and bytes precede them
AppendedTo(t) ==
  /\ files[t].exists
  /\ \E i \in 1..Len(hostLog) :
       /\ hostLog[i].ok
       /\ hostLog[i].op.type = "saveFileChunk"
       /\ hostLog[i].op.hi > hostLog[i].op.lo
       /\ resolveTargetUri(hostLog[i].op.name) = t
       /\ LET all == Bytes(files[t].bytes)
              last == all[Len(all)]
          IN /\ all # <<>>
             /\ last.src = hostLog[i].op.src
             /\ last.hi = hostLog[i].op.hi
             /\ last.lo <= hostLog[i].op.lo
             /\ ByteLength(all) > hostLog[i].op.hi - hostLog[i].op.lo

\* both paths have appended a chunk to contents that existed
C30_Witness ==
  /\ \E t \in Targets : t.scheme = "file" /\ AppendedTo(t)
  /\ \E t \in Targets : t.scheme # "file" /\ AppendedTo(t)

(* ==================== claims: runs against stop ========================= *)

\* the cell was set to Idle with 'Execution cancelled' by stop
IsCancelled(c) == c.status = "idle" /\ c.error = <<"Execution cancelled">>

\* run r, which is in flight, completes or moves on in this step
RunMoves(r) == runs[r].pc \notin {"free", "done"} /\ runs'[r] # runs[r]

\* C31: once stop has set a cell to Idle with error 'Execution cancelled', no
\*      later completion of that cell's in-flight run (an engine result or
\*      failure, or a fileAccessGranted/fileAccessDenied arriving after the
\*      stop) changes that cell's status or error while the cell still exists.
C31_CancelledCellStaysCancelled ==
  [][\A k \in 1..Len(cells), r \in RunIds :
       (IsCancelled(cells[k]) /\ runs[r].id = cells[k].id /\ RunMoves(r)) =>
          \A c \in CellsWith(cells', cells[k].id) : IsCancelled(c)
    ]_vars

\* C32: every cell that run sets to Running eventually leaves Running (to
\*      Success, Error or Idle), provided every engine call completes and the
\*      host answers every requestFileAccess it receives, including when two
\*      runs request the same path at the same time.
C32_RunningCellLeavesRunning ==
  \A id \in CellIds :
     [](IsRunning(id) => <>(~IsRunning(id)))

(* ==================== claims: the persisted permission ================== *)

\* the host handles the updateConfiguration that a saveSettings posted; the sandbox
\* posts the flag it holds, which the settings modal cannot change
SaveReachesHost ==
  /\ toHost # <<>>
  /\ Head(toHost).type = "updateConfiguration"
  /\ toHost' = Tail(toHost)

\* C33: saving the sandbox settings without changing the external-file-access
\*      flag leaves the host's persisted permission unchanged; in particular a
\*      permission persisted by Allow and Remember is still true after the user
\*      saves an unrelated setting.
C33_SaveKeepsPermission ==
  [][SaveReachesHost => allowExternalFileAccess' = allowExternalFileAccess]_vars

(* ==================== claims: engine workers ============================ *)

\* the engine workers that were created and not terminated
LiveWorkers == {b \in BootIds : workers[b] = "live"}

\* C34: at any time at most one engine worker is live: a new bootstrap (the
\*      replay after stop, including two stops issued close together, or a
\*      loadData caused by requestRefresh) never creates a second engine worker
\*      while an earlier one has not been terminated.
C34_AtMostOneLiveWorker == Cardinality(LiveWorkers) <= 1

(* ==================== claims: installing the cells ====================== *)

\* bootstrap b installs its cells in this step (and starts its chain)
Installs(b) == boots[b].pc = "registerFileBuffer" /\ boots'[b].pc = "setup"

\* C35: when a bootstrap (initial load, requestRefresh, or the replay after
\*      stop) installs its cells, the cell list becomes exactly the canonical
\*      cells (setup, optional describe, preview, one empty cell), all Idle,
\*      with focus on the empty cell; every cell that existed before, including
\*      user-created cells and their results, is discarded.  The list installed
\*      is boots'[b].initialCells; in the same step the chain sets the setup
\*      cell of that list to Running.
C35_InstallReplacesTheCells ==
  [][\A b \in BootIds :
       Installs(b) =>
         LET installed == boots'[b].initialCells
             n == Len(installed)
         IN /\ Statements(installed)
                 = CanonicalStatements(boots[b].message, boots[b].currentSettings)
            /\ n = Len(Statements(installed)) + 1
            /\ installed[n].query = ""
            /\ \A k \in 1..n :
                  /\ installed[k].status = "idle"
                  /\ installed[k].error = NoError
                  /\ installed[k].rows = Undefined
                  /\ installed[k].columns = Undefined
                  /\ installed[k].columnTypes = Undefined
            /\ Len(cells') = n
            /\ cells'[1] = [installed[1] EXCEPT !.status = "running"]
            /\ \A k \in 2..n : cells'[k] = installed[k]
            /\ focusId' = installed[n].id
    ]_vars

\* a bootstrap has installed its cells over a notebook that held a cell of the user
\* with the result of a run: that cell is gone
C35_Witness ==
  \E b \in BootIds, r \in RunIds :
     /\ boots[b].pc = "setup"
     /\ runs[r].result = "success"
     /\ runs[r].query = "SELECT"
     /\ runs[r].id \notin IdsOf(cells)
     /\ Len(cells) = 4
     /\ cells[1].status = "running"
     /\ focusId = cells[4].id

\* C36: after any sequence of bootstrap, add, remove, reorder and
\*      run-and-advance operations, all cells in the list have pairwise distinct
\*      ids, also when two cells are created within the same millisecond or a
\*      cell is added within 3 ms of a bootstrap (ids are derived from the
\*      millisecond clock).
C36_CellIdsAreDistinct ==
  \A i, j \in 1..Len(cells) : i # j => cells[i].id # cells[j].id

(* ==================== claims: the Saved notification ==================== *)

\* C37: if the host shows the 'Saved <name>' notification at saveFileEnd, then
\*      the start and every chunk write queued for that export succeeded, so the
\*      destination holds exactly the exported bytes.
C37_SavedMeansWritten ==
  \A i \in 1..Len(hostLog) :
     hostLog[i].op.type = "saveFileEnd" =>
        \A j \in 1..(i - 1) : hostLog[j].op.src = hostLog[i].op.src => hostLog[j].ok

(* ==================== claims: answers of the host ======================= *)

\* C38: handling fileAccessGranted or fileAccessDenied settles the pending
\*      handle for that path and removes its entry, and a response for a path
\*      with no pending entry changes nothing: no handle is settled and no cell
\*      changes.
C38_AnswerSettlesTheEntry ==
  [][HandleMessage =>
       LET filePath == Head(toWebview).filePath
           request == pendingRequests[filePath]
       IN IF request # NoRun
            THEN /\ runs[request].pc = "requestFileAccess"
                 /\ runs'[request].pc # "requestFileAccess"
                 /\ \A r \in RunIds \ {request} : runs'[r] = runs[r]
                 /\ pendingRequests' = [pendingRequests EXCEPT ![filePath] = NoRun]
            ELSE /\ runs' = runs
                 /\ pendingRequests' = pendingRequests
                 /\ cells' = cells
    ]_vars

\* two answers for one path were handled: the first settled a handle and removed the
\* entry, the second run had not asked again, so the second answer found no entry
C38_Witness ==
  \E g, h \in 1..Len(handlers) :
     /\ g < h
     /\ handlers[g].filePath = handlers[h].filePath
     /\ handlers[g].delivered /\ handlers[h].delivered
     /\ pendingRequests[handlers[h].filePath] = NoRun
     /\ \E r \in RunIds : runs[r].pc = "done" /\ runs[r].filePath = handlers[h].filePath

(* ==================== claims: the guards of run ========================= *)

\* C39: run on a cell id that is not in the cell list, or while the session is
\*      not ready, changes no cell, makes no engine call and sends no message to
\*      the host.
C39_RunNeedsCellAndReadiness ==
  [][\A r \in RunIds, id \in IdsOf(cells) \cup {NoCell} :
       (RunCell(r, id) /\ ~(HasCell(id) /\ dbReady)) =>
          /\ cells' = cells
          /\ runs' = runs
          /\ toHost' = toHost
          /\ pendingRequests' = pendingRequests
    ]_vars

\* after a stop the session is not ready while the cells are still in the list, so
\* run may be called on a cell, or on an id no cell has; a run can be started
C39_Witness ==
  /\ ~dbReady
  /\ dbError = NoError
  /\ Len(cells) = 4
  /\ \E k \in 1..Len(cells) : cells[k].error = <<"Execution cancelled">>
  /\ \E r \in RunIds : runs[r].pc = "free"
  /\ ~HasCell(NoCell)

====
